---- MODULE Spec2Model ----
(***************************************************************************)
(* A model of the RenderTiles component (src/src/components/RenderTiles.js) *)
(* of the Platypus engine: strategy selection at setup, the sliding-window  *)
(* buffer cache, the cache grid, and the dirty-flag driven redraw.          *)
(*                                                                          *)
(* Pixel and tile rectangles are kept as platypus.AABB objects reduced to   *)
(* their edges (left, right, top, bottom); x, y, width and height are       *)
(* derived from them.  An AABB whose coordinates are undefined or NaN has   *)
(* nan = TRUE: every ordering comparison against it is false, as in JS.     *)
(***************************************************************************)
EXTENDS Integers, Sequences, FiniteSets, TLC

(* ---------------------------------------------------------------------- *)
(* Program constants                                                       *)
(* ---------------------------------------------------------------------- *)
EDGE_BLEED == 1
EDGES_BLEED == EDGE_BLEED * 2
extrusionMargin == 2

(* ---------------------------------------------------------------------- *)
(* Bounds of the model                                                     *)
(* ---------------------------------------------------------------------- *)
MaxTilesWidth == 5
MaxTilesHeight == 3
MaxLayers == 2
MaxBaked == 1
MaxPending == 2
MaxOverlay == 2

TileWidths == {2, 3}
TileHeights == {2}
MaximumBuffers == {4, 8}
Buffers == {0, 1, 3}
Offsets == {0, 1}
ViewportWidths == {2, 4}
ViewportHeights == {2}
CameraSteps == {-2, -1, 0, 1, 2}

(* ---------------------------------------------------------------------- *)
(* Arithmetic helpers                                                      *)
(* ---------------------------------------------------------------------- *)
Min(a, b) == IF a <= b THEN a ELSE b
Max(a, b) == IF a >= b THEN a ELSE b

\* Math.floor(a / b) for b > 0
FloorDiv(a, b) == a \div b
Abs(a) == IF a >= 0 THEN a ELSE -a

\* JS (a / b) >> 0 : the quotient truncated toward zero (b > 0)
TruncDiv(a, b) == IF a >= 0 THEN a \div b ELSE -((-a) \div b)

\* Math.ceil(a / b) for b > 0
CeilDiv(a, b) == -((-a) \div b)

\* a / b for a divisor of either sign, used only where b divides a
ExactDiv(a, b) == IF b > 0 THEN a \div b ELSE (-a) \div (-b)
Divides(b, a) == b /= 0 /\ a % Abs(b) = 0

\* Math.round(n / d) for d > 0: the nearest integer, halves rounded up
RoundDiv(n, d) == (2 * n + d) \div (2 * d)

\* getPowerOfTwo: the smallest power of two that is >= amount
RECURSIVE PowerOfTwoFrom(_, _)
PowerOfTwoFrom(x, amount) == IF x < amount THEN PowerOfTwoFrom(x * 2, amount) ELSE x
getPowerOfTwo(amount) == PowerOfTwoFrom(1, amount)

(* ---------------------------------------------------------------------- *)
(* platypus.AABB                                                           *)
(* ---------------------------------------------------------------------- *)
\* AABB.setUp() with no arguments: empty, coordinates undefined
EmptyAABB == [empty |-> TRUE, nan |-> TRUE, left |-> 0, right |-> 0, top |-> 0, bottom |-> 0]

\* AABB.setBounds(left, top, right, bottom)
SetBounds(l, t, r, b) == [empty |-> FALSE, nan |-> FALSE, left |-> l, right |-> r, top |-> t, bottom |-> b]

\* AABB.setAll(x, y, width, height) with NaN arguments
NaNAABB == [empty |-> FALSE, nan |-> TRUE, left |-> 0, right |-> 0, top |-> 0, bottom |-> 0]

\* this.contains(aabb): !(aabb.top < this.top || aabb.bottom > this.bottom || aabb.left < this.left || aabb.right > this.right)
Contains(this, aabb) ==
    \/ this.nan
    \/ aabb.nan
    \/ ~(aabb.top < this.top \/ aabb.bottom > this.bottom \/ aabb.left < this.left \/ aabb.right > this.right)

\* this.intersects(aabb): !(aabb.bottom < this.top || aabb.top > this.bottom || aabb.right < this.left || aabb.left > this.right)
Intersects(this, aabb) ==
    \/ this.nan
    \/ aabb.nan
    \/ ~(aabb.bottom < this.top \/ aabb.top > this.bottom \/ aabb.right < this.left \/ aabb.left > this.right)

(* ---------------------------------------------------------------------- *)
(* Configuration (the component's properties)                              *)
(* ---------------------------------------------------------------------- *)
\* The render scale is a fraction: the properties scaleX and scaleY are held as
\* scaleX / scaleDen and scaleY / scaleDen.
Configs ==
    {c \in [tilesWidth : 1..MaxTilesWidth, tilesHeight : 1..MaxTilesHeight,
            tileWidth : TileWidths, tileHeight : TileHeights,
            maximumBuffer : MaximumBuffers, buffer : Buffers,
            cacheAll : BOOLEAN, tileCache : BOOLEAN, entityCache : BOOLEAN,
            left : Offsets, top : Offsets, scaleX : {1}, scaleY : {1}, scaleDen : {1}] :
        c.top = c.left /\ (c.entityCache => c.buffer = 1)}

\* the maps the event-driven specification runs on, one per shape of cache
Narrow(c) == c.maximumBuffer = 4 /\ c.tileWidth = 2 /\ c.tilesWidth = MaxTilesWidth /\ c.tilesHeight = 1
Tall(c) == c.maximumBuffer = 4 /\ c.tileWidth = 2 /\ c.tilesWidth = 3 /\ c.tilesHeight = MaxTilesHeight
Oversized(c) == c.maximumBuffer = 4 /\ c.tileWidth = 3 /\ c.tilesWidth = 3 /\ c.tilesHeight = 1
Small(c) == c.maximumBuffer = 4 /\ c.tileWidth = 2 /\ c.tilesWidth \in {2, 4} /\ c.tilesHeight = 2
Roomy(c) == c.maximumBuffer = 8 /\ c.tileWidth = 2 /\ c.tilesWidth = MaxTilesWidth /\ c.tilesHeight = 1

\* the maps and options the event-driven specification runs on
Scenario(c) ==
    /\ c.left = (IF c.entityCache THEN 1 ELSE 0)
    /\ \/ c.tileCache /\ ~c.cacheAll /\ c.buffer = 1 /\ c.entityCache /\ Narrow(c)
       \/ c.tileCache /\ ~c.cacheAll /\ c.buffer = 0 /\ (Narrow(c) \/ Small(c))
       \/ c.tileCache /\ ~c.cacheAll /\ c.buffer = 3 /\ Tall(c)
       \/ c.tileCache /\ c.buffer = 0 /\ Oversized(c)
       \/ ~c.tileCache /\ c.cacheAll /\ c.buffer = 3 /\ Roomy(c)

\* the widths the viewport starts with: a layer without buffer margin keeps its
\* viewport's size, so both are tried on the scrolling one
InitialWidths(c) == IF c.buffer = 0 /\ Narrow(c) THEN ViewportWidths ELSE {2}

\* a map more than two caches of the largest size long, whose window can hold more
\* tiles than the smallest viewport and its margins need
Long(c) == c.maximumBuffer = 8 /\ c.tileWidth = 2 /\ c.tilesWidth > MaxTilesWidth /\ c.tilesHeight = 1

\* the layer whose viewport is resized while it runs
Resizable(c) == c.buffer /= 0 /\ (Narrow(c) \/ Long(c))

Scenarios == {c \in Configs : Scenario(c)}

layerWidth(c) == c.tilesWidth * c.tileWidth
layerHeight(c) == c.tilesHeight * c.tileHeight

\* initialize: "Set up buffer cache size"
InitCacheWidth(c) == Min(getPowerOfTwo(layerWidth(c) + EDGES_BLEED), c.maximumBuffer)
InitCacheHeight(c) == Min(getPowerOfTwo(layerHeight(c) + EDGES_BLEED), c.maximumBuffer)

(* ---------------------------------------------------------------------- *)
(* Entities (the peers whose rendering may be baked into the map)          *)
(* ---------------------------------------------------------------------- *)
\* an entity: the bounds, depth and clip mask of its cacheRender display object (if it
\* has one) and the types of its components
NoEntity ==
    [x |-> 0, y |-> 0, w |-> 0, h |-> 0, z |-> 0, mask |-> FALSE, cacheRender |-> FALSE,
     components |-> {}]

\* the maps the overlay is followed on: one baked whole, one cut into a grid, one
\* scrolled through a window
BakedWhole(c) == c.maximumBuffer = 8 /\ c.tileWidth = 2 /\ c.tilesWidth = 3 /\ c.tilesHeight = 2
BakedGrid(c) == c.maximumBuffer = 4 /\ c.tileWidth = 2 /\ c.tilesWidth = 3 /\ c.tilesHeight = 2
Overlay(c) ==
    /\ c.entityCache /\ c.tileCache /\ ~c.cacheAll /\ c.left = 0
    /\ (BakedWhole(c) \/ BakedGrid(c) \/ Narrow(c))

OverlayConfigs == {c \in Configs : Overlay(c)}

\* the entities sent to a layer: many shapes, and one without a drawable, where the
\* overlay is followed; elsewhere one with a drawable
EntitiesFor(c) ==
    IF Overlay(c)
    THEN {e \in [x : {-3, 1, 4}, y : {1}, w : {1, 4}, h : {3}, z : {0, 1}, mask : BOOLEAN,
                  cacheRender : {TRUE},
                  components : {{"RenderContainer"}, {"RenderContainer", "RenderSprite"}}] :
             /\ e.w = (IF e.x = 1 THEN 1 ELSE 4)
             /\ e.z = (IF e.x = 1 THEN 1 ELSE 0)
             /\ e.mask = (e.w = 1)
             /\ ("RenderSprite" \in e.components) = (e.w = 4)}
         \cup {[NoEntity EXCEPT !.components = {"RenderSprite"}]}
    ELSE {[x |-> 1, y |-> 1, w |-> 3, h |-> 2, z |-> 0, mask |-> FALSE, cacheRender |-> TRUE,
           components |-> {"RenderContainer"}]}

\* the children of mapContainer
TileContainer == [kind |-> "tileContainer", of |-> NoEntity]
EntityChild(e) == [kind |-> "entity", of |-> e]
MaskChild(e) == [kind |-> "mask", of |-> e]

(* ---------------------------------------------------------------------- *)
(* State                                                                   *)
(* ---------------------------------------------------------------------- *)
VARIABLES
    cfg,                \* the configured properties (fixed)
    ready,              \* this.ready
    pc,                 \* position inside handle-render-load: "idle", "gridOuter", "gridInner"
    cacheAll,           \* this.cacheAll
    buffer,             \* this.buffer
    render,             \* this.render: "undefined", "doNothing", "renderCache", "renderCacheWithExtrusion"
    populate,           \* this.populate: "populateTiles", "populateTilesAndEntities"
    cacheWidth,         \* this.cacheWidth
    cacheHeight,        \* this.cacheHeight
    cacheTilesWidth,    \* this.cacheTilesWidth
    cacheTilesHeight,   \* this.cacheTilesHeight
    cache,              \* this.cache      (tile space)
    cachePixels,        \* this.cachePixels (pixel space)
    laxCam,             \* this.laxCam
    worldWidth,         \* this.worldWidth
    worldHeight,        \* this.worldHeight
    layers,             \* this.imageMap.length
    updateCache,        \* this.updateCache (the dirty flag)
    cacheTexture,       \* this.cacheTexture: 0 (null) or the id of a texture of the pair
    spriteTexture,      \* this.tilesSprite.texture
    spriteCacheTexture, \* this.tilesSpriteCache.texture
    texturesCreated,    \* number of RenderTexture.create calls so far
    sprite,             \* this.tilesSprite position
    oldCacheSprite,     \* this.tilesSpriteCache as a child of mapContainer
    cacheGrid,          \* this.cacheGrid (<<>> while undefined), or createGrid's cg while it runs
    gridX,              \* createGrid's x
    gridY,              \* createGrid's y
    baked,              \* this.cachedDisplayObjects.length
    tileCells,          \* cells whose tiles are the children of tileContainer
    camera,             \* the camera's viewport (environment)
    loaded,             \* the camera has sent camera-loaded (environment)
    pending,            \* dirty triggers since the last handle-render, up to MaxPending (history)
    ev,                 \* what the last event did
    tileMap,            \* this.imageMap[0], cell by cell, where the map's content is followed
    saved,              \* the imageMap of the last toJSON()
    restored,           \* createMap(saved.map)
    upperMaps,          \* this.imageMap[1..], the layers add-tiles pushed, where followed
    templates,          \* this.tiles: the Template made for each identifier, where followed
    tileChildren,       \* the children of tileContainer, in order, where followed
    tileValue,          \* the number of a tile's identifier, as two 16-bit halves, where decoded
    decoded,            \* what transformCheck made of tileValue
    legacy,             \* the legacy render-tiles component, where it is the one followed
    shown,              \* what each texture of the pair shows, cell by cell, where followed
    stage,              \* the textures made and released, and the nodes on the parent container
    doMap,              \* this.doMap: the display objects over each cell of the map
    objects,            \* this.cachedDisplayObjects
    mapChildren,        \* the children of mapContainer, the blit sprite apart
    drawn               \* the display objects that carry the "drawn" marker

vars == <<cfg, ready, pc, cacheAll, buffer, render, populate, cacheWidth, cacheHeight,
          cacheTilesWidth, cacheTilesHeight, cache, cachePixels, laxCam, worldWidth,
          worldHeight, layers, updateCache, cacheTexture, spriteTexture,
          spriteCacheTexture, texturesCreated, sprite, oldCacheSprite, cacheGrid,
          gridX, gridY, baked, tileCells, camera, loaded, pending, ev,
          tileMap, saved, restored, upperMaps, templates, tileChildren,
          tileValue, decoded, legacy, shown, stage, doMap, objects, mapChildren, drawn>>

\* the content of the bottom layer and what was serialized from it
mapVars == <<tileMap, saved, restored, upperMaps, templates, tileChildren, tileValue, decoded,
            legacy, shown, stage>>

\* the identifier being decoded and its transform
transformVars == <<tileValue, decoded>>

\* the entity overlay
overlayVars == <<doMap, objects, mapChildren, drawn>>

\* the record of an event that drew nothing
\* change-tile's arguments, and their place in the record of an event without them;
\* z is <<>> when the argument is omitted
NoEdit == [tile |-> "undefined", x |-> 0, y |-> 0, z |-> <<>>]

NoEv(name) ==
    [name |-> name, stale |-> FALSE, resized |-> FALSE, populates |-> 0, renders |-> 0,
     swaps |-> 0, cells |-> {}, blit |-> <<>>, dest |-> 0, window |-> EmptyAABB,
     oldCache |-> cache, oldCachePixels |-> cachePixels, threw |-> FALSE,
     dirty |-> updateCache, coalesced |-> 0, entity |-> NoEntity, components |-> {},
     passes |-> <<>>, edit |-> NoEdit, again |-> FALSE]

\* the cap on createGrid's textures: more than any terminating createGrid makes
GridCap == MaxTilesWidth * MaxTilesHeight + 1

InitFor(configs) ==
    /\ cfg \in configs
    /\ ready = FALSE
    /\ pc = "idle"
    /\ cacheAll = (cfg.tileCache /\ cfg.cacheAll)
    /\ buffer = (IF cfg.tileCache THEN cfg.buffer ELSE 0)
    /\ render = "undefined"
    /\ populate = "populateTiles"
    /\ cacheWidth = InitCacheWidth(cfg)
    /\ cacheHeight = InitCacheHeight(cfg)
    /\ cacheTilesWidth = 0
    /\ cacheTilesHeight = 0
    /\ cache = EmptyAABB
    /\ cachePixels = EmptyAABB
    /\ laxCam = EmptyAABB
    /\ worldWidth = cfg.tileWidth
    /\ worldHeight = cfg.tileHeight
    /\ layers = 1
    /\ updateCache = FALSE
    /\ cacheTexture = 0
    /\ spriteTexture = 0
    /\ spriteCacheTexture = 0
    /\ texturesCreated = 0
    /\ sprite = [x |-> 0, y |-> 0]
    /\ oldCacheSprite = [attached |-> FALSE, x |-> 0, y |-> 0]
    /\ cacheGrid = <<>>
    /\ gridX = 0
    /\ gridY = 0
    /\ baked = 0
    /\ tileCells = {}
    /\ camera \in [left : {cfg.left}, top : {cfg.top}, height : ViewportHeights,
                    width : InitialWidths(cfg)]
    /\ loaded = FALSE
    /\ pending = 0
    /\ ev = [name |-> "initialize", stale |-> FALSE, resized |-> FALSE, populates |-> 0,
             renders |-> 0, swaps |-> 0, cells |-> {}, blit |-> <<>>, dest |-> 0,
             window |-> EmptyAABB, oldCache |-> EmptyAABB, oldCachePixels |-> EmptyAABB,
             threw |-> FALSE, dirty |-> FALSE, coalesced |-> 0, entity |-> NoEntity,
             components |-> {}, passes |-> <<>>, edit |-> NoEdit, again |-> FALSE]
    /\ doMap = [c \in (0..(cfg.tilesWidth - 1)) \X (0..(cfg.tilesHeight - 1)) |-> <<>>]
    /\ objects = <<>>
    /\ mapChildren = <<TileContainer>>
    /\ drawn = {}

(* ---------------------------------------------------------------------- *)
(* Methods                                                                 *)
(* ---------------------------------------------------------------------- *)
\* updateRegion: the number of tiles that fit a cache of the given size, with
\* tw = tileSize * scale / scaleDen
RegionTiles(tiles, cacheSize, tileSize, scale) ==
    Min(tiles, TruncDiv((cacheSize - EDGES_BLEED) * cfg.scaleDen, tileSize * scale))

\* updateBufferRegion: the number of tiles of the buffered window, with
\* tw = tileSize * scale / scaleDen
BufferTiles(tiles, viewportSize, buf, cacheSize, tileSize, scale) ==
    Min(Min(tiles, CeilDiv((viewportSize + buf * 2) * cfg.scaleDen, tileSize * scale)),
        TruncDiv(cacheSize * cfg.scaleDen, tileSize * scale))

\* a populate pass that adds the tiles of every cell of bounds
PopulateWhole(bounds, hasOld, oldBounds) ==
    IF bounds.nan THEN {} ELSE (bounds.left..bounds.right) \X (bounds.top..bounds.bottom)

(* ---------------------------------------------------------------------- *)
(* The tile map: createTile, createMap, updateTile, Template               *)
(* ---------------------------------------------------------------------- *)
\* the identifiers of a map definition; "tile-1" is the empty one
TileIds == {"tile-1", "tile0", "tile5"}

\* a template made for an identifier, the shared nullTemplate, a string of a map
\* definition, and the undefined value
TemplateOf(id) == [kind |-> "template", id |-> id]
nullTemplate == [kind |-> "nullTemplate", id |-> "undefined"]
StringOf(id) == [kind |-> "string", id |-> id]
Undefined == [kind |-> "undefined", id |-> "undefined"]

\* the map definitions of w columns of h identifiers
MapDefinitions(w, h) == [1..w -> [1..h -> {StringOf(id) : id \in TileIds}]]

\* a createTile that makes a template for every identifier
createTileOfAny(imageName) == TemplateOf(imageName)

\* createTile
createTile(imageName) ==
    IF imageName = "tile-1" THEN nullTemplate ELSE TemplateOf(imageName)

\* updateTile: reading index.id of undefined throws
UpdateTileThrows(index) == index.kind = "undefined"

\* updateTile: the template put at the cell, this.tiles[index] or a new one
updateTile(index) == createTile(index.id)

\* createMap: a grid whose first cell is not a string is returned as it is
createMap(mapDefinition) ==
    IF mapDefinition[1][1].kind /= "string"
    THEN [threw |-> FALSE, map |-> mapDefinition]
    ELSE IF \E x \in DOMAIN mapDefinition : \E y \in DOMAIN mapDefinition[x] :
                UpdateTileThrows(mapDefinition[x][y])
    THEN [threw |-> TRUE, map |-> <<>>]
    ELSE [threw |-> FALSE,
          map |-> [x \in DOMAIN mapDefinition |->
                      [y \in DOMAIN mapDefinition[x] |-> updateTile(mapDefinition[x][y])]]]

\* the layers of this.imageMap, bottom first, where the map's content is followed
imageMap == IF tileMap = <<>> THEN <<>> ELSE <<tileMap>> \o upperMaps

\* Template: the instances made for a tile so far and the cursor of getNext. An
\* instance is the n-th of its template's instances; `template` says whether it
\* carries the reference back to its template
Template(id) ==
    [id |-> id, instances |-> <<[id |-> id, n |-> 1, template |-> TRUE]>>, index |-> 0]

\* a clone that is given the reference to its template
CloneWithTemplate(t) == [id |-> t.id, n |-> t.index + 1, template |-> TRUE]

\* getNext: instance = this.instances[this.index] = new Sprite(template.texture)
CloneOf(t) == [id |-> t.id, n |-> t.index + 1, template |-> FALSE]

\* a getNext that makes an instance at every call
getNextFresh(t) ==
    [instance |-> CloneOf(t),
     template |-> [t EXCEPT !.instances = Append(@, CloneOf(t)), !.index = @ + 1]]

\* Template.prototype.getNext: the instance returned and the template afterwards
getNext(t) ==
    LET made == IF t.index + 1 \in DOMAIN t.instances
                THEN t.instances
                ELSE Append(t.instances, CloneOf(t))
    IN  [instance |-> made[t.index + 1],
         template |-> [t EXCEPT !.instances = made, !.index = @ + 1]]

\* a clear that leaves the cursor where the pass left it
clearNothing(t) == t

\* Template.prototype.clear
clear(t) == [t EXCEPT !.index = 0]

\* this.tiles after updateTile has looked the identifiers up: tiles[index] =
\* this.createTile(index) for each one not there yet
WithTiles(tls, ids) ==
    [id \in DOMAIN tls \cup {i \in ids : createTile(i).kind = "template"} |->
        IF id \in DOMAIN tls THEN tls[id] ELSE Template(id)]

\* the identifiers of a map definition
IdsOf(mapDefinition) ==
    {mapDefinition[x][y].id : x \in DOMAIN mapDefinition, y \in 1..Len(mapDefinition[1])}

\* populateTiles / populateTilesAndEntities: the cells whose tiles are added
PopulateCells(bounds, hasOld, oldBounds) ==
    IF bounds.nan THEN {}
    ELSE {c \in (bounds.left..bounds.right) \X (bounds.top..bounds.bottom) :
             \/ ~hasOld
             \/ oldBounds.empty
             \/ c[2] > oldBounds.bottom
             \/ c[2] < oldBounds.top
             \/ c[1] > oldBounds.right
             \/ c[1] < oldBounds.left}

\* the cells of bounds in the order the loops of populate visit them: columns from
\* the left, each from the top
Visit(bounds) ==
    IF bounds.nan \/ bounds.right < bounds.left \/ bounds.bottom < bounds.top
    THEN <<>>
    ELSE LET rows == bounds.bottom - bounds.top + 1
         IN  [k \in 1..((bounds.right - bounds.left + 1) * rows) |->
                 <<bounds.left + ((k - 1) \div rows), bounds.top + ((k - 1) % rows)>>]

\* this.doMap[x] && this.doMap[x][y], or an empty list
OverlayAt(cell) == IF cell \in DOMAIN doMap THEN doMap[cell] ELSE <<>>

\* the overlay lists of a sequence of cells, one after the other
RECURSIVE OverlayOver(_)
OverlayOver(cells) ==
    IF cells = <<>> THEN <<>> ELSE OverlayAt(Head(cells)) \o OverlayOver(Tail(cells))

\* if (!oList[z].drawn) { oList[z].drawn = true; ents.push(oList[z]); }
\* marked holds the objects that carry the marker when the pass begins
RECURSIVE Undrawn(_, _)
Undrawn(list, marked) ==
    IF list = <<>> THEN <<>>
    ELSE LET before == Undrawn(SubSeq(list, 1, Len(list) - 1), marked)
             last == list[Len(list)]
         IN  IF last \in marked \/ \E i \in 1..Len(before) : before[i] = last
             THEN before
             ELSE Append(before, last)

\* the cells of bounds that are drawn anew, in the order they are visited
VisitNew(bounds, cells) == SelectSeq(Visit(bounds), LAMBDA c : c \in cells)

\* a pass that pushes a display object once for every cell that lists it
CollectEveryListing(bounds, cells, marked) == OverlayOver(VisitNew(bounds, cells))

\* populateTilesAndEntities: ents, as pushed while the new cells are visited
CollectEntities(bounds, cells, marked) ==
    Undrawn(OverlayOver(VisitNew(bounds, cells)), marked)

\* an ordering that leaves ents as they were pushed
AsPushed(ents) == {ents}

\* ents.sort(sort): the orders of ents in which z never decreases
SortedOrders(ents) ==
    {order \in [1..Len(ents) -> {ents[i] : i \in 1..Len(ents)}] :
        /\ \A i \in 1..Len(ents) : \E j \in 1..Len(ents) : order[j] = ents[i]
        /\ \A i, j \in 1..Len(ents) : i < j => order[i].z <= order[j].z}

\* mapContainer's children after the pass: the tile container, then each entity
\* followed by its mask
RECURSIVE EntityChildren(_)
EntityChildren(order) ==
    IF order = <<>> THEN <<>>
    ELSE <<EntityChild(Head(order))>>
         \o (IF Head(order).mask THEN <<MaskChild(Head(order))>> ELSE <<>>)
         \o EntityChildren(Tail(order))

\* the objects of a list
ObjectsOf(list) == {list[i] : i \in 1..Len(list)}

\* delete ent.drawn, for every ent of ents
Unmark(marked, ents) == marked \ ObjectsOf(ents)

\* one call of this.populate(bounds, oldBounds): the cells drawn, the entities pushed
\* and the objects that carry the marker when it returns
PassOf(bounds, hasOld, oldBounds, marked) ==
    IF populate = "populateTilesAndEntities"
    THEN LET ents == CollectEntities(bounds, PopulateCells(bounds, hasOld, oldBounds), marked)
         IN  [cells |-> PopulateCells(bounds, hasOld, oldBounds),
              ents |-> ents,
              drawn |-> Unmark(marked \cup ObjectsOf(ents), ents)]
    ELSE [cells |-> PopulateCells(bounds, hasOld, oldBounds), ents |-> <<>>, drawn |-> marked]

\* the cells of a pass in the order the loops of populate visit them
RECURSIVE InOrder(_)
InOrder(cells) ==
    IF cells = {} THEN <<>>
    ELSE LET c == CHOOSE c \in cells :
                      \A d \in cells : c[1] < d[1] \/ (c[1] = d[1] /\ c[2] <= d[2])
         IN  <<c>> \o InOrder(cells \ {c})

\* populate, "draw tiles": tile = this.imageMap[layer][x][y].getNext() for the layers
\* from `layer` on of the cells of `visits`, and tileContainer.addChild(tile) if there
\* is one; nullTemplate's getNext is doNothing
RECURSIVE DrawTiles(_, _, _, _)
DrawTiles(visits, layer, tls, children) ==
    IF visits = <<>> THEN [tiles |-> tls, children |-> children]
    ELSE IF layer > Len(imageMap) THEN DrawTiles(Tail(visits), 1, tls, children)
    ELSE LET x == Head(visits)[1]
             y == Head(visits)[2]
             cell == imageMap[layer][x + 1][y + 1]
         IN  IF cell.kind /= "template"
             THEN DrawTiles(visits, layer + 1, tls, children)
             ELSE DrawTiles(visits, layer + 1,
                            [tls EXCEPT ![cell.id] = getNext(tls[cell.id]).template],
                            Append(children, [tile |-> getNext(tls[cell.id]).instance,
                                              x |-> x, y |-> y]))

\* populate, "Clear out tile instances": clear() on the template of every tile added
\* that refers to one
ClearTiles(tls, children) ==
    [id \in DOMAIN tls |->
        IF \E k \in DOMAIN children : children[k].tile.template /\ children[k].tile.id = id
        THEN clear(tls[id])
        ELSE tls[id]]

\* the templates and tileContainer's children after populate passes, one after another
RECURSIVE DrawPassesFrom(_, _, _, _)
DrawPassesFrom(passes, k, tls, children) ==
    IF k > Len(passes) THEN [tiles |-> tls, children |-> children]
    ELSE LET drawn1 == DrawTiles(InOrder(passes[k].cells), 1, tls, <<>>)
         IN  DrawPassesFrom(passes, k + 1, ClearTiles(drawn1.tiles, drawn1.children),
                            drawn1.children)

\* the populate passes of an event, on the followed content
DrawPasses(passes) ==
    IF tileMap = <<>> \/ passes = <<>>
    THEN UNCHANGED <<templates, tileChildren>>
    ELSE /\ templates' = DrawPassesFrom(passes, 1, templates, tileChildren).tiles
         /\ tileChildren' = DrawPassesFrom(passes, 1, templates, tileChildren).children

\* the textures' content is not followed
NotShown == <<>>

\* a texture just created, or cleared by clearRenderTexture: nothing at any cell
Cleared == [c \in {} |-> <<>>]

\* what a texture shows at the cell (i, j) counted from its corner: the tile drawn
\* there last, above whatever was drawn before it, or nothing
At(content, c) == IF c \in DOMAIN content THEN content[c] ELSE <<>>

\* renderer.render(wrapper, dest) with src at (-bounds.left * tileWidth, -bounds.top *
\* tileHeight): the children of tileContainer each at its cell, then the blit sprite
\* (if it is a child of mapContainer) with what its texture shows, inside the mask of
\* cacheTilesWidth by cacheTilesHeight tiles
Rendered(bounds, children, blit, old, ctw, cth) ==
    LET tilesAt(c) == SelectSeq(children, LAMBDA k : k.x - bounds.left = c[1] /\ k.y - bounds.top = c[2])
        ids(c) == [k \in 1..Len(tilesAt(c)) |-> tilesAt(c)[k].tile.id]
        copied(c) == IF blit.attached
                     THEN At(old, <<c[1] + bounds.left - blit.x \div cfg.tileWidth,
                                    c[2] + bounds.top - blit.y \div cfg.tileHeight>>)
                     ELSE <<>>
        all(c) == ids(c) \o copied(c)
        full == [c \in (0..(ctw - 1)) \X (0..(cth - 1)) |->
                    IF all(c) = <<>> THEN <<>> ELSE <<all(c)[Len(all(c))]>>]
    IN  [c \in {d \in DOMAIN full : full[d] /= <<>>} |-> full[c]]

\* the render of an event into this.cacheTexture, on the followed textures
RenderShown ==
    IF shown = NotShown \/ ev'.renders = 0 \/ ev'.dest = 0
    THEN UNCHANGED shown
    ELSE shown' = [shown EXCEPT ![ev'.dest] =
                      Rendered(cache', tileChildren', oldCacheSprite',
                               shown[spriteCacheTexture'], cacheTilesWidth', cacheTilesHeight')]

\* the children mapContainer may have after a pass
ChildrenAfter(pass) ==
    IF populate = "populateTilesAndEntities"
    THEN {<<TileContainer>> \o EntityChildren(order) : order \in SortedOrders(pass.ents)}
    ELSE {mapChildren}

\* a selector whose single-texture test is strict
StrategyStrict(c, cw, ch, all) ==
    IF ~c.tileCache THEN "none"
    ELSE IF layerWidth(c) < cw /\ layerHeight(c) < ch THEN "single"
    ELSE IF \/ all
            \/ (layerWidth(c) <= cw * 2 /\ layerHeight(c) <= ch)
            \/ (layerWidth(c) <= cw /\ layerHeight(c) <= ch * 2) THEN "grid"
    ELSE "sliding"

\* a selector that takes the grid only when cacheAll is configured
StrategyGridOnRequest(c, cw, ch, all) ==
    IF ~c.tileCache THEN "none"
    ELSE IF layerWidth(c) <= cw /\ layerHeight(c) <= ch THEN "single"
    ELSE IF all THEN "grid"
    ELSE "sliding"

\* a selector that does not look at cacheAll
StrategyBySizeAlone(c, cw, ch, all) ==
    IF ~c.tileCache THEN "none"
    ELSE IF layerWidth(c) <= cw /\ layerHeight(c) <= ch THEN "single"
    ELSE IF \/ (layerWidth(c) <= cw * 2 /\ layerHeight(c) <= ch)
            \/ (layerWidth(c) <= cw /\ layerHeight(c) <= ch * 2) THEN "grid"
    ELSE "sliding"

\* handle-render-load: the branch taken, from the sizes set by initialize
Strategy(c, cw, ch, all) ==
    IF ~c.tileCache THEN "none"
    ELSE IF layerWidth(c) <= cw /\ layerHeight(c) <= ch THEN "single"
    ELSE IF \/ all
            \/ (layerWidth(c) <= cw * 2 /\ layerHeight(c) <= ch)
            \/ (layerWidth(c) <= cw /\ layerHeight(c) <= ch * 2) THEN "grid"
    ELSE "sliding"

\* the strategy in force, read back from the component's state
Mode ==
    IF render = "doNothing" THEN "none"
    ELSE IF render = "renderCacheWithExtrusion" THEN "grid"
    ELSE IF render = "renderCache" /\ cacheAll THEN "single"
    ELSE IF render = "renderCache" THEN "sliding"
    ELSE "unset"

\* the mapContainer child left by populate: populateTilesAndEntities removes all children
AfterPopulateSprite ==
    IF populate = "populateTilesAndEntities"
    THEN [oldCacheSprite EXCEPT !.attached = FALSE]
    ELSE oldCacheSprite

(* ---------------------------------------------------------------------- *)
(* The stage: textures and the parent container                            *)
(* ---------------------------------------------------------------------- *)
\* nothing made, nothing released, nothing on the parent container; released lists
\* the textures in the order texture.destroy(true) was called on them
NoStage == [textures |-> {}, released |-> <<>>, nodes |-> {}]

\* the textures of the pair (cacheTexture and its alternate) and of the grid's blocks
PairTexture(n) == <<"cacheTexture", n, 0>>
BlockTexture(x, y) == <<"block", x, y>>

\* the nodes the component puts on the parent container
MapContainerNode == <<"mapContainer", 0, 0>>
TilesSpriteNode == <<"tilesSprite", 0, 0>>
BlockNode(x, y) == <<"block", x, y>>

\* RenderTexture.create(...) for each of made; parentContainer.addChild(node)
Staged(made, node) ==
    [stage EXCEPT !.textures = @ \cup made, !.nodes = @ \cup {node}]

(* ---------------------------------------------------------------------- *)
(* handle-render-load                                                      *)
(* ---------------------------------------------------------------------- *)
HandleRenderLoad(hasContainer) ==
    /\ pc = "idle"
    /\ UNCHANGED <<doMap, objects>>
    /\ UNCHANGED <<tileMap, saved, restored, upperMaps, tileValue, decoded, legacy>>
    /\ ~ready
    /\ UNCHANGED <<cfg, buffer, populate, cachePixels, laxCam, worldWidth, worldHeight,
                   layers, baked, camera, loaded, pending, sprite, gridX, gridY, cacheGrid>>
    /\ IF ~hasContainer
       THEN /\ ev' = NoEv("handle-render-load")
            /\ UNCHANGED <<ready, pc, cacheAll, render, cacheWidth, cacheHeight,
                           cacheTilesWidth, cacheTilesHeight, cache, updateCache,
                           cacheTexture, spriteTexture, spriteCacheTexture,
                           texturesCreated, oldCacheSprite, tileCells, mapChildren, drawn,
                           stage>>
       ELSE LET strategy == Strategy(cfg, cacheWidth, cacheHeight, cacheAll)
                whole == SetBounds(0, 0, cfg.tilesWidth - 1, cfg.tilesHeight - 1)
                gw == Min(getPowerOfTwo(layerWidth(cfg) + extrusionMargin), cfg.maximumBuffer)
                gh == Min(getPowerOfTwo(layerHeight(cfg) + extrusionMargin), cfg.maximumBuffer)
            IN  /\ ready' = TRUE
                /\ cacheAll' = (strategy \in {"single", "grid"})
                /\ render' = CASE strategy = "none" -> "doNothing"
                               [] strategy = "grid" -> "renderCacheWithExtrusion"
                               [] OTHER -> "renderCache"
                /\ cacheWidth' = (IF strategy = "grid" THEN gw ELSE cacheWidth)
                /\ cacheHeight' = (IF strategy = "grid" THEN gh ELSE cacheHeight)
                /\ cacheTilesWidth' = RegionTiles(cfg.tilesWidth, cacheWidth', cfg.tileWidth, cfg.scaleX)
                /\ cacheTilesHeight' = RegionTiles(cfg.tilesHeight, cacheHeight', cfg.tileHeight, cfg.scaleY)
                /\ pc' = (IF strategy = "grid" THEN "gridOuter" ELSE "idle")
                /\ cache' = (IF strategy = "single" THEN whole ELSE cache)
                /\ tileCells' = (IF strategy = "single" THEN PopulateCells(whole, FALSE, whole) ELSE tileCells)
                /\ oldCacheSprite' = (IF strategy = "single" THEN AfterPopulateSprite ELSE oldCacheSprite)
                /\ cacheTexture' = (IF strategy \in {"single", "sliding"} THEN 1 ELSE 0)
                /\ spriteTexture' = (IF strategy \in {"single", "sliding"} THEN 1 ELSE 0)
                /\ spriteCacheTexture' = (IF strategy = "sliding" THEN 2 ELSE 0)
                /\ texturesCreated' = (CASE strategy = "single" -> 1
                                         [] strategy = "sliding" -> 2
                                         [] OTHER -> 0)
                /\ stage' = (CASE strategy = "none" -> Staged({}, MapContainerNode)
                               [] strategy = "single" -> Staged({PairTexture(1)}, TilesSpriteNode)
                               [] strategy = "sliding" ->
                                      Staged({PairTexture(1), PairTexture(2)}, TilesSpriteNode)
                               [] OTHER -> stage)
                /\ UNCHANGED updateCache
                /\ IF strategy = "single"
                   THEN \E pass \in {PassOf(whole, FALSE, whole, drawn)} :
                            /\ mapChildren' \in ChildrenAfter(pass)
                            /\ drawn' = pass.drawn
                            /\ ev' = [NoEv("handle-render-load") EXCEPT
                                         !.populates = 1, !.renders = 1, !.dest = 1,
                                         !.cells = pass.cells,
                                         !.passes = <<pass>>]
                   ELSE /\ UNCHANGED <<mapChildren, drawn>>
                        /\ ev' = NoEv("handle-render-load")
    /\ DrawPasses(ev'.passes)
    /\ RenderShown

\* createGrid, outer loop: for (x = 0; x < tsw; x += ctw) { col = []; cg.push(col); ...
CreateGridOuter ==
    /\ pc = "gridOuter"
    /\ UNCHANGED overlayVars
    /\ UNCHANGED mapVars
    /\ UNCHANGED <<cfg, ready, cacheAll, buffer, render, populate, cacheWidth, cacheHeight,
                   cacheTilesWidth, cacheTilesHeight, cache, cachePixels, laxCam,
                   worldWidth, worldHeight, layers, cacheTexture, spriteTexture,
                   spriteCacheTexture, texturesCreated, sprite, oldCacheSprite, gridX,
                   baked, tileCells, camera, loaded, pending, ev>>
    /\ IF gridX < cfg.tilesWidth
       THEN /\ cacheGrid' = (IF Len(cacheGrid) < GridCap THEN Append(cacheGrid, <<>>) ELSE cacheGrid)
            /\ gridY' = 0
            /\ pc' = "gridInner"
            /\ UNCHANGED updateCache
       ELSE /\ pc' = "idle"
            /\ updateCache' = TRUE
            /\ UNCHANGED <<cacheGrid, gridY>>

\* an inner loop that makes one texture for every row of tiles
CreateGridInnerEveryRow ==
    /\ pc = "gridInner"
    /\ UNCHANGED overlayVars
    /\ UNCHANGED <<tileMap, saved, restored, upperMaps, templates, tileChildren, tileValue,
                   decoded, legacy, shown>>
    /\ UNCHANGED <<cfg, ready, cacheAll, buffer, render, populate, cacheWidth, cacheHeight,
                   cacheTilesWidth, cacheTilesHeight, cache, cachePixels, laxCam,
                   worldWidth, worldHeight, layers, updateCache, cacheTexture,
                   spriteTexture, spriteCacheTexture, sprite, oldCacheSprite,
                   baked, tileCells, camera, loaded, pending, ev>>
    /\ IF gridY < cfg.tilesHeight
       THEN /\ cacheGrid' = (IF texturesCreated < GridCap
                             THEN [cacheGrid EXCEPT ![Len(cacheGrid)] =
                                      Append(@, [w |-> cacheWidth, h |-> cacheHeight, visible |-> TRUE, x |-> 0, y |-> 0])]
                             ELSE cacheGrid)
            /\ stage' = (IF texturesCreated < GridCap
                         THEN Staged({BlockTexture(Len(cacheGrid), Len(cacheGrid[Len(cacheGrid)]) + 1)},
                                     BlockNode(Len(cacheGrid), Len(cacheGrid[Len(cacheGrid)]) + 1))
                         ELSE stage)
            /\ texturesCreated' = Min(texturesCreated + 1, GridCap)
            /\ gridY' = gridY + 1
            /\ UNCHANGED <<gridX, pc>>
       ELSE /\ gridX' = gridX + cacheTilesWidth
            /\ pc' = "gridOuter"
            /\ UNCHANGED <<cacheGrid, gridY, texturesCreated, stage>>

\* createGrid, inner loop: for (y = 0; y < tsh; y += cth) { rt = RenderTexture.create(w, h); ... col.push(ct); }
CreateGridInner ==
    /\ pc = "gridInner"
    /\ UNCHANGED overlayVars
    /\ UNCHANGED <<tileMap, saved, restored, upperMaps, templates, tileChildren, tileValue,
                   decoded, legacy, shown>>
    /\ UNCHANGED <<cfg, ready, cacheAll, buffer, render, populate, cacheWidth, cacheHeight,
                   cacheTilesWidth, cacheTilesHeight, cache, cachePixels, laxCam,
                   worldWidth, worldHeight, layers, updateCache, cacheTexture,
                   spriteTexture, spriteCacheTexture, sprite, oldCacheSprite,
                   baked, tileCells, camera, loaded, pending, ev>>
    /\ IF gridY < cfg.tilesHeight
       THEN LET w == Min(getPowerOfTwo((cfg.tilesWidth - gridX) * cfg.tileWidth + EDGES_BLEED), cacheWidth)
                h == Min(getPowerOfTwo((cfg.tilesHeight - gridY) * cfg.tileHeight + EDGES_BLEED), cacheHeight)
                ct == [w |-> w, h |-> h, visible |-> TRUE, x |-> 0, y |-> 0]
                n == Len(cacheGrid)
            IN  /\ cacheGrid' = (IF texturesCreated < GridCap
                                 THEN [cacheGrid EXCEPT ![n] = Append(@, ct)]
                                 ELSE cacheGrid)
                /\ stage' = (IF texturesCreated < GridCap
                             THEN Staged({BlockTexture(n, Len(cacheGrid[n]) + 1)},
                                         BlockNode(n, Len(cacheGrid[n]) + 1))
                             ELSE stage)
                /\ texturesCreated' = Min(texturesCreated + 1, GridCap)
                /\ gridY' = gridY + cacheTilesHeight
                /\ UNCHANGED <<gridX, pc>>
       ELSE /\ gridX' = gridX + cacheTilesWidth
            /\ pc' = "gridOuter"
            /\ UNCHANGED <<cacheGrid, gridY, texturesCreated, stage>>

(* ---------------------------------------------------------------------- *)
(* Dirty triggers                                                          *)
(* ---------------------------------------------------------------------- *)
\* Math.floor / Math.ceil and the clamps of cacheSprite: the columns or rows of tiles
\* that a span of pixels (from pos, size long, relative to the map) touches
CoveredTiles(pos, size, tileSize, tiles) ==
    Max(0, FloorDiv(pos, tileSize)) .. (Min(tiles, CeilDiv(pos + size, tileSize)) - 1)

\* a cacheSprite that lists the display object in every cell of the map
CoveredEverywhere(entity) == DOMAIN doMap

\* cacheSprite: "Find tiles that should include this display object"
CoveredCells(entity) ==
    CoveredTiles(entity.x - cfg.left, entity.w, cfg.tileWidth, cfg.tilesWidth)
        \X CoveredTiles(entity.y - cfg.top, entity.h, cfg.tileHeight, cfg.tilesHeight)

\* platypus.Entity.removeComponent(type): the component of that type is removed
RemoveComponent(components, type) == components \ {type}

\* the display objects a layer accepts in the model
OverlayRoom == IF Overlay(cfg) THEN MaxOverlay ELSE MaxBaked

\* cache-sprite / peer-entity-added -> cacheSprite(entity)
CacheSprite(name, entity) ==
    /\ pc = "idle"
    /\ UNCHANGED mapVars
    /\ baked < OverlayRoom
    /\ IF cfg.entityCache /\ entity.cacheRender
       THEN /\ populate' = "populateTilesAndEntities"
            /\ baked' = baked + 1
            /\ objects' = Append(objects, entity)
            /\ doMap' = [c \in DOMAIN doMap |->
                            IF c \in CoveredCells(entity) THEN Append(doMap[c], entity) ELSE doMap[c]]
            /\ updateCache' = TRUE
            /\ pending' = Min(pending + 1, MaxPending)
            /\ ev' = [NoEv(name) EXCEPT
                         !.entity = entity,
                         !.components = RemoveComponent(entity.components, "RenderSprite")]
       ELSE /\ UNCHANGED <<populate, baked, objects, doMap, updateCache, pending>>
            /\ ev' = [NoEv(name) EXCEPT !.entity = entity, !.components = entity.components]
    /\ UNCHANGED <<cfg, ready, pc, cacheAll, buffer, render, cacheWidth, cacheHeight,
                   cacheTilesWidth, cacheTilesHeight, cache, cachePixels, laxCam,
                   worldWidth, worldHeight, layers, cacheTexture, spriteTexture,
                   spriteCacheTexture, texturesCreated, sprite, oldCacheSprite, cacheGrid,
                   gridX, gridY, tileCells, camera, loaded, mapChildren, drawn>>

\* the definition add-tiles is sent, of w columns of h identifiers
LayerDefinitions(w, h) ==
    {[x \in 1..w |-> [y \in 1..h |-> StringOf(IF x = 1 THEN "tile5" ELSE "tile0")]]}

\* add-tiles
AddTiles(hasMap) ==
    /\ pc = "idle"
    /\ UNCHANGED overlayVars
    /\ UNCHANGED <<tileMap, saved, restored, tileChildren, tileValue, decoded, legacy, shown, stage>>
    /\ layers < MaxLayers
    /\ ev' = NoEv("add-tiles")
    /\ IF hasMap
       THEN /\ layers' = layers + 1
            /\ updateCache' = TRUE
            /\ pending' = Min(pending + 1, MaxPending)
            /\ IF tileMap = <<>>
               THEN UNCHANGED <<upperMaps, templates>>
               ELSE \E map \in LayerDefinitions(cfg.tilesWidth, cfg.tilesHeight) :
                        /\ upperMaps' = Append(upperMaps, createMap(map).map)
                        /\ templates' = WithTiles(templates, IdsOf(map))
       ELSE UNCHANGED <<layers, updateCache, pending, upperMaps, templates>>
    /\ UNCHANGED <<cfg, ready, pc, cacheAll, buffer, render, populate, cacheWidth,
                   cacheHeight, cacheTilesWidth, cacheTilesHeight, cache, cachePixels,
                   laxCam, worldWidth, worldHeight, cacheTexture, spriteTexture,
                   spriteCacheTexture, texturesCreated, sprite, oldCacheSprite, cacheGrid,
                   gridX, gridY, baked, tileCells, camera, loaded>>

\* change-tile: a layer index that ignores z
LayerOfBottom(z) == 0

\* change-tile: z || 0
LayerOf(z) == IF z = <<>> THEN 0 ELSE z[1]

\* updateTile(index, map, x, y): map[x][y] = tile
SetTile(index, map, x, y) == [map EXCEPT ![x + 1][y + 1] = updateTile(index)]

\* change-tile on the followed content: this.updateTile(tile, map[z || 0], x, y)
EditTile(tile, x, y, z) ==
    IF tileMap = <<>>
    THEN UNCHANGED <<tileMap, upperMaps, templates>>
    ELSE /\ templates' = WithTiles(templates, {tile})
         /\ IF LayerOf(z) = 0
            THEN /\ tileMap' = SetTile(StringOf(tile), tileMap, x, y)
                 /\ UNCHANGED upperMaps
            ELSE /\ upperMaps' = [upperMaps EXCEPT ![LayerOf(z)] = SetTile(StringOf(tile), @, x, y)]
                 /\ UNCHANGED tileMap

\* a change-tile that edits the cell and leaves the dirty flag as it was
ChangeTileUnmarked(tile, x, y, z) ==
    /\ pc = "idle"
    /\ UNCHANGED overlayVars
    /\ UNCHANGED <<saved, restored, tileChildren, tileValue, decoded, legacy, shown, stage>>
    /\ EditTile(tile, x, y, z)
    /\ ev' = [NoEv("change-tile") EXCEPT !.edit = [tile |-> tile, x |-> x, y |-> y, z |-> z]]
    /\ pending' = Min(pending + 1, MaxPending)
    /\ UNCHANGED <<cfg, ready, pc, cacheAll, buffer, render, populate, cacheWidth,
                   cacheHeight, cacheTilesWidth, cacheTilesHeight, cache, cachePixels,
                   laxCam, worldWidth, worldHeight, layers, updateCache, cacheTexture,
                   spriteTexture, spriteCacheTexture, texturesCreated, sprite,
                   oldCacheSprite, cacheGrid, gridX, gridY, baked, tileCells, camera,
                   loaded>>

\* change-tile
ChangeTile(tile, x, y, z) ==
    /\ pc = "idle"
    /\ UNCHANGED overlayVars
    /\ UNCHANGED <<saved, restored, tileChildren, tileValue, decoded, legacy, shown, stage>>
    /\ EditTile(tile, x, y, z)
    /\ ev' = [NoEv("change-tile") EXCEPT !.edit = [tile |-> tile, x |-> x, y |-> y, z |-> z]]
    /\ updateCache' = TRUE
    /\ pending' = Min(pending + 1, MaxPending)
    /\ UNCHANGED <<cfg, ready, pc, cacheAll, buffer, render, populate, cacheWidth,
                   cacheHeight, cacheTilesWidth, cacheTilesHeight, cache, cachePixels,
                   laxCam, worldWidth, worldHeight, layers, cacheTexture, spriteTexture,
                   spriteCacheTexture, texturesCreated, sprite, oldCacheSprite, cacheGrid,
                   gridX, gridY, baked, tileCells, camera, loaded>>

(* ---------------------------------------------------------------------- *)
(* handle-render                                                           *)
(* ---------------------------------------------------------------------- *)
\* a region that runs to the next block's first tiles whether the map has them or not
BlockRegionUnclamped(x, y) ==
    SetBounds(x * cacheTilesWidth, y * cacheTilesHeight,
              (x + 1) * cacheTilesWidth, (y + 1) * cacheTilesHeight)

\* updateGrid: the tile region of block (x, y), 0-based
BlockRegion(x, y) ==
    SetBounds(x * cacheTilesWidth, y * cacheTilesHeight,
              Min((x + 1) * cacheTilesWidth, cfg.tilesWidth - 1),
              Min((y + 1) * cacheTilesHeight, cfg.tilesHeight - 1))

\* the blocks of the grid, 0-based
GridBlocks == {b \in (0..(Len(cacheGrid) - 1)) \X (0..(GridCap - 1)) : b[2] < Len(cacheGrid[b[1] + 1])}

\* updateGrid: the blocks in the order its loops update them
RECURSIVE BlocksFrom(_)
BlocksFrom(i) ==
    IF i > Len(cacheGrid) THEN <<>>
    ELSE [j \in 1..Len(cacheGrid[i]) |-> <<i - 1, j - 1>>] \o BlocksFrom(i + 1)
GridOrder == BlocksFrom(1)

\* the populate passes of updateGrid from the k-th cache on
RECURSIVE GridPasses(_, _)
GridPasses(k, marked) ==
    IF k > Len(GridOrder) THEN <<>>
    ELSE LET pass == PassOf(BlockRegion(GridOrder[k][1], GridOrder[k][2]), FALSE, cache, marked)
         IN  <<pass>> \o GridPasses(k + 1, pass.drawn)

\* the renders one update() call makes with this.render
RendersOf(r) == CASE r = "renderCache" -> 1
                  [] r = "renderCacheWithExtrusion" -> 5
                  [] OTHER -> 0

\* the blit sprite drawn with mapContainer in a render
DrawnBlit(sp) == IF sp.attached THEN <<sp.x, sp.y>> ELSE <<>>

HandleRender ==
    /\ pc = "idle"
    /\ UNCHANGED <<doMap, objects>>
    /\ UNCHANGED <<tileMap, saved, restored, upperMaps, tileValue, decoded, legacy, stage>>
    /\ UNCHANGED <<cfg, ready, pc, cacheAll, buffer, render, populate, cacheWidth,
                   cacheHeight, cacheTilesWidth, cacheTilesHeight, cachePixels, laxCam,
                   worldWidth, worldHeight, layers, cacheTexture, spriteTexture,
                   spriteCacheTexture, texturesCreated, sprite, cacheGrid, gridX, gridY,
                   baked, camera, loaded>>
    /\ updateCache' = FALSE
    /\ pending' = 0
    /\ IF ~updateCache
       THEN /\ ev' = NoEv("handle-render")
            /\ UNCHANGED <<cache, oldCacheSprite, tileCells, mapChildren, drawn>>
       ELSE IF cacheGrid /= <<>>
       THEN \* updateGrid
            LET last == <<Len(cacheGrid) - 1, Len(cacheGrid[Len(cacheGrid)]) - 1>>
                cells == UNION {PopulateCells(BlockRegion(b[1], b[2]), FALSE, cache) : b \in GridBlocks}
            IN  /\ cache' = BlockRegion(last[1], last[2])
                /\ tileCells' = PopulateCells(cache', FALSE, cache)
                /\ oldCacheSprite' = AfterPopulateSprite
                /\ \E passes \in {GridPasses(1, drawn)} :
                       /\ mapChildren' \in ChildrenAfter(passes[Len(passes)])
                       /\ drawn' = passes[Len(passes)].drawn
                       /\ ev' = [NoEv("handle-render") EXCEPT
                                    !.populates = Cardinality(GridBlocks),
                                    !.renders = RendersOf(render) * Cardinality(GridBlocks),
                                    !.cells = cells,
                                    !.blit = DrawnBlit(oldCacheSprite'),
                                    !.coalesced = pending,
                                    !.passes = passes]
       ELSE \* update(this.cacheTexture, this.cache)
            \E pass \in {PassOf(cache, FALSE, cache, drawn)} :
                /\ tileCells' = pass.cells
                /\ oldCacheSprite' = AfterPopulateSprite
                /\ UNCHANGED cache
                /\ mapChildren' \in ChildrenAfter(pass)
                /\ drawn' = pass.drawn
                /\ ev' = [NoEv("handle-render") EXCEPT
                             !.passes = <<pass>>,
                             !.populates = 1,
                             !.renders = RendersOf(render),
                             !.cells = pass.cells,
                             !.dest = IF RendersOf(render) > 0 THEN cacheTexture ELSE 0,
                             !.blit = IF RendersOf(render) > 0 THEN DrawnBlit(oldCacheSprite') ELSE <<>>,
                             !.threw = (render = "undefined"),
                             !.coalesced = pending]
    /\ DrawPasses(ev'.passes)
    /\ RenderShown

(* ---------------------------------------------------------------------- *)
(* Camera                                                                  *)
(* ---------------------------------------------------------------------- *)
\* camera-loaded
CameraLoaded(ww, wh) ==
    /\ pc = "idle"
    /\ UNCHANGED overlayVars
    /\ UNCHANGED mapVars
    /\ ~loaded
    /\ worldWidth' = ww
    /\ worldHeight' = wh
    /\ IF buffer /= 0 /\ ~cacheAll
       THEN \* updateBufferRegion(camera.viewport)
            /\ cacheTilesWidth' = BufferTiles(cfg.tilesWidth, camera.width, buffer, cacheWidth, cfg.tileWidth, cfg.scaleX)
            /\ cacheTilesHeight' = BufferTiles(cfg.tilesHeight, camera.height, buffer, cacheHeight, cfg.tileHeight, cfg.scaleY)
       ELSE UNCHANGED <<cacheTilesWidth, cacheTilesHeight>>
    /\ ev' = NoEv("camera-loaded")
    /\ UNCHANGED <<cfg, ready, pc, cacheAll, buffer, render, populate, cacheWidth,
                   cacheHeight, cache, cachePixels, laxCam, layers, updateCache,
                   cacheTexture, spriteTexture, spriteCacheTexture, texturesCreated,
                   sprite, oldCacheSprite, cacheGrid, gridX, gridY, baked, tileCells,
                   camera, pending>>
    /\ loaded' = TRUE

\* a conversion that takes the world's size unscaled
ConvertAxisUnscaled(pos, size, off, world, scale, layer) ==
    LET worldPos == world - size
    IN  IF world = layer \/ worldPos = 0
        THEN pos
        ELSE ExactDiv((pos - off) * (layer - size), worldPos) + off

\* convertCamera, one axis: the low edge of laxCam
\* (pos: the viewport's low edge, size: its extent, off: the map offset)
\* The scaled world, world / this.scale = world * scaleDen / scale, need not be a whole
\* number: it is held as the fraction n / scale, and worldPos = (n - size * scale) / scale.
ConvertAxis(pos, size, off, world, scale, layer) ==
    LET n == world * cfg.scaleDen
        worldPos == n - size * scale
    IN  IF n = layer * scale \/ worldPos = 0
        THEN pos
        ELSE ExactDiv((pos - off) * (layer - size) * scale, worldPos) + off

\* the positions convertCamera maps to a whole number of pixels, along one axis
AxisExact(pos, size, off, world, scale, layer) ==
    IF world * cfg.scaleDen = layer * scale \/ world * cfg.scaleDen = size * scale
    THEN TRUE
    ELSE Divides(world * cfg.scaleDen - size * scale, (pos - off) * (layer - size) * scale)

\* the viewports whose lax position is a whole number of pixels
LaxExact(vp) ==
    /\ AxisExact(vp.left, vp.width, cfg.left, worldWidth, cfg.scaleX, layerWidth(cfg))
    /\ AxisExact(vp.top, vp.height, cfg.top, worldHeight, cfg.scaleY, layerHeight(cfg))

\* convertCamera
ConvertCamera(vp) ==
    LET l == ConvertAxis(vp.left, vp.width, cfg.left, worldWidth, cfg.scaleX, layerWidth(cfg))
        t == ConvertAxis(vp.top, vp.height, cfg.top, worldHeight, cfg.scaleY, layerHeight(cfg))
    IN  [empty |-> TRUE, nan |-> FALSE, left |-> l, right |-> l + vp.width,
         top |-> t, bottom |-> t + vp.height]

\* updateCamera: the first tile of the window centred on the camera, along one axis
\* (lo, hi: laxCam's edges, count: cacheTiles{Width,Height}, tiles: tiles{Width,Height})
NaiveStart(lo, hi, off, tileSize, count) ==
    RoundDiv(lo + hi - 2 * off - (count - 1) * tileSize, 2 * tileSize)

\* a window left where the camera centres it
WindowUnclamped(lo, hi, off, tileSize, count, tiles) == NaiveStart(lo, hi, off, tileSize, count)

\* updateCamera: the candidate window's first tile after the edge checks
WindowStart(lo, hi, off, tileSize, count, tiles) ==
    LET ct == count - 1
        naive == NaiveStart(lo, hi, off, tileSize, count)
    IN  IF naive < 0 THEN 0
        ELSE IF naive + ct > tiles - 1 THEN tiles - 1 - ct
        ELSE naive

\* updateCamera: tempC
Window(lax, ctw, cth) ==
    LET l == WindowStart(lax.left, lax.right, cfg.left, cfg.tileWidth, ctw, cfg.tilesWidth)
        t == WindowStart(lax.top, lax.bottom, cfg.top, cfg.tileHeight, cth, cfg.tilesHeight)
    IN  SetBounds(l, t, l + ctw - 1, t + cth - 1)

\* AABB.setAll(x, y, width, height): the box of that size centred on (x, y); the
\* centre is passed doubled (x2 = 2x, y2 = 2y), since it may lie on a half pixel
SetAll(x2, y2, width, height) ==
    SetBounds(ExactDiv(x2 - width, 2), ExactDiv(y2 - height, 2),
              ExactDiv(x2 + width, 2), ExactDiv(y2 + height, 2))

\* a pixel box that takes the region's centre and size as they are, in tiles
PixelBoxOfEdges(c) ==
    IF c.nan THEN NaNAABB
    ELSE SetAll((c.left + c.right) * cfg.tileWidth + 2 * cfg.left,
                (c.top + c.bottom) * cfg.tileHeight + 2 * cfg.top,
                (c.right - c.left) * cfg.tileWidth,
                (c.bottom - c.top) * cfg.tileHeight)

\* updateCamera: "Store pixel bounding box for checking later."
\* cacheP.setAll((cache.x + 0.5) * tileWidth + left, (cache.y + 0.5) * tileHeight + top,
\*               (cache.width + 1) * tileWidth, (cache.height + 1) * tileHeight)
\* with cache.x = (cache.left + cache.right) / 2 and cache.width = cache.right - cache.left
PixelBox(c) ==
    IF c.nan THEN NaNAABB
    ELSE SetAll((c.left + c.right + 1) * cfg.tileWidth + 2 * cfg.left,
                (c.top + c.bottom + 1) * cfg.tileHeight + 2 * cfg.top,
                (c.right - c.left + 1) * cfg.tileWidth,
                (c.bottom - c.top + 1) * cfg.tileHeight)

\* updateRegion: this.cacheClipWidth = ctw * tw and this.cacheClipHeight = cth * th,
\* with tw = tileWidth * scaleX / scaleDen and th = tileHeight * scaleY / scaleDen
cacheClipWidth == ExactDiv(cacheTilesWidth * cfg.tileWidth * cfg.scaleX, cfg.scaleDen)
cacheClipHeight == ExactDiv(cacheTilesHeight * cfg.tileHeight * cfg.scaleY, cfg.scaleDen)

\* the grids whose blocks are a whole number of pixels wide and high
ClipExact ==
    /\ Divides(cfg.scaleDen, cacheTilesWidth * cfg.tileWidth * cfg.scaleX)
    /\ Divides(cfg.scaleDen, cacheTilesHeight * cfg.tileHeight * cfg.scaleY)

\* updateCamera: the pixel box of grid block (x, y)
BlockBox(x, y) ==
    LET cw == cacheClipWidth
        ch == cacheClipHeight
    IN  SetBounds(x * cw + cfg.left, y * ch + cfg.top, (x + 1) * cw + cfg.left, (y + 1) * ch + cfg.top)

\* a camera update that shows and places every sprite of the grid
GridAllShown(vp, lax) ==
    [i \in 1..Len(cacheGrid) |->
        [j \in 1..Len(cacheGrid[i]) |->
            [cacheGrid[i][j] EXCEPT
                !.visible = TRUE,
                !.x = vp.left - lax.left + (i - 1) * cacheClipWidth + cfg.left,
                !.y = vp.top - lax.top + (j - 1) * cacheClipHeight + cfg.top]]]

\* updateCamera: visibility and position of the grid's sprites
GridAfterCamera(vp, lax) ==
    [i \in 1..Len(cacheGrid) |->
        [j \in 1..Len(cacheGrid[i]) |->
            LET ct == cacheGrid[i][j]
                inFrame == Intersects(BlockBox(i - 1, j - 1), lax)
            IN  IF inFrame
                THEN [ct EXCEPT !.visible = TRUE,
                                !.x = vp.left - lax.left + (i - 1) * cacheClipWidth + cfg.left,
                                !.y = vp.top - lax.top + (j - 1) * cacheClipHeight + cfg.top]
                ELSE [ct EXCEPT !.visible = FALSE]]]

\* the farthest the camera moves in one update, and past the map's edges
CameraOvershoot == CHOOSE d \in CameraSteps : \A e \in CameraSteps : e <= d

\* the viewports the camera takes: up to CameraOvershoot pixels past the map's
\* left and right edges, and one tile past the top and bottom of a map taller than a cache
CameraRange(vp) ==
    LET over == IF layerHeight(cfg) > cfg.maximumBuffer THEN cfg.tileHeight ELSE 0
    IN  /\ vp.left >= cfg.left - CameraOvershoot
        /\ vp.left + vp.width <= cfg.left + layerWidth(cfg) + CameraOvershoot
        /\ vp.top >= cfg.top - over
        /\ vp.top + vp.height <= cfg.top + layerHeight(cfg) + over

\* updateCamera: resized
Resized(vp) ==
    buffer /= 0 /\ (vp.width /= laxCam.right - laxCam.left \/ vp.height /= laxCam.bottom - laxCam.top)

\* a test that recomputes the window on every camera update
StaleAnywhere(lax) == ~cacheAll /\ layers > 0

\* a test that recomputes the window whatever cacheAll reads
StaleDespiteCacheAll(lax) == (cachePixels.empty \/ ~Contains(cachePixels, lax)) /\ layers > 0

\* updateCamera: the test that sends it to recompute the window
Stale(lax) ==
    ~cacheAll /\ (cachePixels.empty \/ ~Contains(cachePixels, lax)) /\ layers > 0

\* a test that swaps and redraws on every stale update
NeedsSwapWhenStale(tempC) == cfg.tileCache

\* a test that leaves out cache.empty
NeedsSwapOutsideRegion(tempC) == cfg.tileCache /\ ~Contains(tempC, cache)

\* updateCamera: the test that swaps the texture pair and redraws
NeedsSwap(tempC) ==
    cfg.tileCache /\ (cache.empty \/ ~Contains(tempC, cache))

\* a pair in which each texture is its own alternate
alternateItself(texture) == texture

\* texture.alternate, for the textures 1 and 2 of the pair handle-render-load makes:
\* cacheTexture.alternate is the second, and its alternate the first
alternate(texture) == 3 - texture

\* camera-update -> updateCamera(camera)
CameraUpdate(dx, dy, w, h) ==
    /\ pc = "idle"
    /\ UNCHANGED <<doMap, objects>>
    /\ UNCHANGED <<tileMap, saved, restored, upperMaps, tileValue, decoded, legacy, stage>>
    /\ camera' = [left |-> camera.left + dx, top |-> camera.top + dy, width |-> w, height |-> h]
    /\ loaded
    /\ (w /= camera.width => Resizable(cfg))
    /\ CameraRange(camera')
    /\ LaxExact(camera')
    /\ cacheGrid /= <<>> => ClipExact
    /\ UNCHANGED <<cfg, ready, pc, cacheAll, buffer, render, populate, cacheWidth,
                   cacheHeight, worldWidth, worldHeight, layers, updateCache,
                   texturesCreated, gridX, gridY, baked, loaded, pending>>
    /\ IF ~ready
       THEN /\ ev' = NoEv("camera-update")
            /\ UNCHANGED <<cacheTilesWidth, cacheTilesHeight, cache, cachePixels, laxCam,
                           cacheTexture, spriteTexture, spriteCacheTexture, sprite,
                           oldCacheSprite, cacheGrid, tileCells, mapChildren, drawn>>
       ELSE \E vp \in {camera'} :
            \E lax \in {ConvertCamera(vp)} :
            \E resized \in {Resized(vp)} :
            \E stale \in {Stale(lax)} :
            \E ctw \in {IF stale /\ resized
                        THEN BufferTiles(cfg.tilesWidth, lax.right - lax.left, buffer, cacheWidth, cfg.tileWidth, cfg.scaleX)
                        ELSE cacheTilesWidth} :
            \E cth \in {IF stale /\ resized
                        THEN BufferTiles(cfg.tilesHeight, lax.bottom - lax.top, buffer, cacheHeight, cfg.tileHeight, cfg.scaleY)
                        ELSE cacheTilesHeight} :
            \E tempC \in {Window(lax, ctw, cth)} :
            \E live \in {stale /\ ~cfg.tileCache} :
            \E swap \in {stale /\ NeedsSwap(tempC)} :
            \E passes \in {IF live \/ swap THEN <<PassOf(tempC, swap, cache, drawn)>> ELSE <<>>} :
            \E cells \in {IF live \/ swap THEN passes[1].cells ELSE {}} :
                /\ laxCam' = lax
                /\ mapChildren' \in (IF live \/ swap THEN ChildrenAfter(passes[1]) ELSE {mapChildren})
                /\ drawn' = (IF live \/ swap THEN passes[1].drawn ELSE drawn)
                /\ cacheTilesWidth' = ctw
                /\ cacheTilesHeight' = cth
                /\ spriteCacheTexture' = (IF swap THEN cacheTexture ELSE spriteCacheTexture)
                /\ cacheTexture' = (IF swap THEN alternate(cacheTexture) ELSE cacheTexture)
                /\ spriteTexture' = (IF swap THEN cacheTexture' ELSE spriteTexture)
                /\ tileCells' = (IF live \/ swap THEN cells ELSE tileCells)
                /\ oldCacheSprite' =
                       (IF swap /\ ~cache.empty
                        THEN [attached |-> TRUE, x |-> cache.left * cfg.tileWidth, y |-> cache.top * cfg.tileHeight]
                        ELSE IF live \/ swap THEN AfterPopulateSprite
                        ELSE oldCacheSprite)
                /\ cache' = (IF swap THEN tempC ELSE cache)
                /\ cachePixels' = (IF cacheGrid /= <<>>
                                   THEN BlockBox(Len(cacheGrid) - 1, Len(cacheGrid[Len(cacheGrid)]) - 1)
                                   ELSE IF stale THEN PixelBox(cache')
                                   ELSE cachePixels)
                /\ cacheGrid' = (IF cacheGrid /= <<>> THEN GridAfterCamera(vp, lax) ELSE cacheGrid)
                /\ sprite' = (IF cacheGrid = <<>> /\ cfg.tileCache
                              THEN [x |-> vp.left - lax.left + cache'.left * cfg.tileWidth + cfg.left,
                                    y |-> vp.top - lax.top + cache'.top * cfg.tileHeight + cfg.top]
                              ELSE sprite)
                /\ ev' = [NoEv("camera-update") EXCEPT
                             !.again = (ev.name = "camera-update" /\ camera' = camera),
                             !.stale = stale,
                             !.resized = stale /\ resized,
                             !.populates = IF live \/ swap THEN 1 ELSE 0,
                             !.renders = IF swap THEN RendersOf(render) ELSE 0,
                             !.swaps = IF swap THEN 1 ELSE 0,
                             !.cells = cells,
                             !.dest = IF swap THEN cacheTexture' ELSE 0,
                             !.blit = IF swap THEN DrawnBlit(oldCacheSprite') ELSE <<>>,
                             !.window = IF stale THEN tempC ELSE EmptyAABB,
                             !.passes = passes]
    /\ DrawPasses(ev'.passes)
    /\ RenderShown

(* ---------------------------------------------------------------------- *)
(* transformCheck                                                          *)
(* ---------------------------------------------------------------------- *)
\* +(value.substring(4)) as a 32-bit word in two halves, v = hi * HalfWord + lo, and
\* the bits of "&" that fall in the high half
MirrorBit == 32768
FlipBit == 16384
RotateBit == 8192
FrameHigh == 4096
HalfWord == FrameHigh * 16

\* mask & v is not zero, for a mask of one bit of the high half
HasBit(v, bit) == (v.hi \div bit) % 2 = 1

\* 0x0fffffff & v
FrameOf(v) == (v.hi % FrameHigh) * HalfWord + v.lo

\* no identifier is being decoded
NoValue == [hi |-> 0, lo |-> 0]
NotDecoded == [now |-> <<>>, legacy |-> <<>>]

\* a transformCheck that does not test 0x80000000
transformCheckUnmirrored(v) ==
    LET y1 == IF HasBit(v, FlipBit) THEN -1 ELSE 1
    IN  IF HasBit(v, RotateBit)
        THEN [x |-> y1, y |-> -1, rotation |-> 1, frame |-> FrameOf(v)]
        ELSE [x |-> 1, y |-> y1, rotation |-> 0, frame |-> FrameOf(v)]

\* transformCheck(value, tile) on a new tile (scale 1, 1 and rotation 0): the tile's
\* scale.x, scale.y and rotation (in units of Math.PI / 2) and the frame returned
transformCheck(v) ==
    LET x1 == IF HasBit(v, MirrorBit) THEN -1 ELSE 1
        y1 == IF HasBit(v, FlipBit) THEN -1 ELSE 1
    IN  IF HasBit(v, RotateBit)
        THEN [x |-> y1, y |-> -x1, rotation |-> 1, frame |-> FrameOf(v)]
        ELSE [x |-> x1, y |-> y1, rotation |-> 0, frame |-> FrameOf(v)]

\* the legacy component's transformCheck(value): resp.x, resp.y, resp.r (in degrees)
\* and resp.t
transformCheckLegacy(v) ==
    LET a == HasBit(v, RotateBit)
        b == HasBit(v, FlipBit)
        c == HasBit(v, MirrorBit)
        t == FrameOf(v)
    IN  IF a /\ b /\ c THEN [x |-> -1, y |-> 1, rotation |-> 90, frame |-> t]
        ELSE IF a /\ c THEN [x |-> 1, y |-> 1, rotation |-> 90, frame |-> t]
        ELSE IF b /\ c THEN [x |-> 1, y |-> 1, rotation |-> 180, frame |-> t]
        ELSE IF a /\ b THEN [x |-> 1, y |-> 1, rotation |-> 270, frame |-> t]
        ELSE IF a THEN [x |-> 1, y |-> -1, rotation |-> 90, frame |-> t]
        ELSE IF b THEN [x |-> 1, y |-> -1, rotation |-> 0, frame |-> t]
        ELSE IF c THEN [x |-> -1, y |-> 1, rotation |-> 0, frame |-> t]
        ELSE [x |-> 1, y |-> 1, rotation |-> 0, frame |-> t]

\* createTile: transformCheck(imageName, tile)
TransformCheck ==
    /\ decoded.now = <<>>
    /\ decoded' = [decoded EXCEPT !.now = transformCheck(tileValue)]
    /\ UNCHANGED <<tileValue, tileMap, saved, restored, upperMaps, templates, tileChildren, legacy, shown, stage>>
    /\ UNCHANGED overlayVars
    /\ UNCHANGED <<cfg, ready, pc, cacheAll, buffer, render, populate, cacheWidth, cacheHeight,
                   cacheTilesWidth, cacheTilesHeight, cache, cachePixels, laxCam, worldWidth,
                   worldHeight, layers, updateCache, cacheTexture, spriteTexture,
                   spriteCacheTexture, texturesCreated, sprite, oldCacheSprite, cacheGrid,
                   gridX, gridY, baked, tileCells, camera, loaded, pending, ev>>

\* the legacy component's transformCheck(value)
TransformCheckLegacy ==
    /\ decoded.legacy = <<>>
    /\ decoded' = [decoded EXCEPT !.legacy = transformCheckLegacy(tileValue)]
    /\ UNCHANGED <<tileValue, tileMap, saved, restored, upperMaps, templates, tileChildren, legacy, shown, stage>>
    /\ UNCHANGED overlayVars
    /\ UNCHANGED <<cfg, ready, pc, cacheAll, buffer, render, populate, cacheWidth, cacheHeight,
                   cacheTilesWidth, cacheTilesHeight, cache, cachePixels, laxCam, worldWidth,
                   worldHeight, layers, updateCache, cacheTexture, spriteTexture,
                   spriteCacheTexture, texturesCreated, sprite, oldCacheSprite, cacheGrid,
                   gridX, gridY, baked, tileCells, camera, loaded, pending, ev>>

(* ---------------------------------------------------------------------- *)
(* The legacy component (engine/components/render-tiles.js)                *)
(* ---------------------------------------------------------------------- *)
\* the legacy component is not the one followed
NoLegacy == <<>>

\* a range of tiles (minX, minY, maxX, maxY)
Range(minX, minY, maxX, maxY) == [minX |-> minX, minY |-> minY, maxX |-> maxX, maxY |-> maxY]

\* what the last legacy event did: whether it redrew, the window it rendered, the
\* tiles it drew and the old image's place if it was blitted
NoRedraw(name) == [name |-> name, redrew |-> FALSE, window |-> Range(-1, -1, -1, -1),
                   cells |-> {}, blit |-> <<>>, threw |-> FALSE]

\* this.camera once destroy has set it to undefined
NoCamera == <<>>

\* constructor: the component made from a definition with an imageMap of w columns
\* of h tiles, square tiles of tileSize pixels and a buffer, at scale 1, under a
\* viewport of the given size
LegacyComponent(w, h, tileSize, buf, vw, vh) ==
    [mapWidth |-> w, mapHeight |-> h, tileWidth |-> tileSize, tileHeight |-> tileSize,
     scaleX |-> 1, scaleY |-> 1,
     worldWidth |-> tileSize, worldHeight |-> tileSize,
     tilesWidth |-> tileSize, tilesHeight |-> tileSize,
     camera |-> [x |-> -buf - 1, y |-> -buf - 1, buffer |-> buf],
     cache |-> Range(-1, -1, -1, -1),
     ready |-> FALSE, loaded |-> FALSE, cacheCanvas |-> FALSE,
     viewport |-> [left |-> 0, top |-> 0, width |-> vw, height |-> vh],
     last |-> NoRedraw("constructor")]

\* the rest of the main component's state while the legacy one is followed
LegacyFrame ==
    /\ UNCHANGED <<tileMap, saved, restored, upperMaps, templates, tileChildren, tileValue, decoded,
                   shown, stage>>
    /\ UNCHANGED overlayVars
    /\ UNCHANGED <<cfg, ready, pc, cacheAll, buffer, render, populate, cacheWidth, cacheHeight,
                   cacheTilesWidth, cacheTilesHeight, cache, cachePixels, laxCam, worldWidth,
                   worldHeight, layers, updateCache, cacheTexture, spriteTexture,
                   spriteCacheTexture, texturesCreated, sprite, oldCacheSprite, cacheGrid,
                   gridX, gridY, baked, tileCells, camera, loaded, pending, ev>>

\* legacy handle-render-load with a stage
LegacyHandleRenderLoad ==
    /\ legacy /= NoLegacy
    /\ ~legacy.ready
    /\ legacy' = [legacy EXCEPT !.ready = TRUE,
                                !.cacheCanvas = FALSE,
                                !.tilesWidth = legacy.mapWidth * legacy.tileWidth,
                                !.tilesHeight = legacy.mapHeight * legacy.tileHeight,
                                !.last = NoRedraw("handle-render-load")]
    /\ LegacyFrame

\* legacy camera-loaded
LegacyCameraLoaded(ww, wh) ==
    /\ legacy /= NoLegacy
    /\ ~legacy.loaded
    /\ legacy' = [legacy EXCEPT !.loaded = TRUE, !.worldWidth = ww, !.worldHeight = wh,
                                !.last = NoRedraw("camera-loaded")]
    /\ LegacyFrame

\* legacy convertCamera: worldDistance / this.scaleX, on either axis
\* (worldDistance / this.scaleX need not be a whole number: the comparisons and the
\* quotient are taken with both sides multiplied by this.scaleX)
LegacyConvertCamera(distance, worldDistance, tileDistance, viewportDistance) ==
    IF worldDistance = tileDistance * legacy.scaleX \/ worldDistance = viewportDistance * legacy.scaleX
    THEN distance
    ELSE ExactDiv(distance * (tileDistance - viewportDistance) * legacy.scaleX,
                  worldDistance - viewportDistance * legacy.scaleX)

\* the positions legacy convertCamera maps to a whole pixel
LegacyExact(distance, worldDistance, tileDistance, viewportDistance) ==
    IF worldDistance = tileDistance * legacy.scaleX \/ worldDistance = viewportDistance * legacy.scaleX
    THEN TRUE
    ELSE Divides(worldDistance - viewportDistance * legacy.scaleX,
                 distance * (tileDistance - viewportDistance) * legacy.scaleX)

\* legacy camera-update: the tiles the loops draw, those of the window outside the
\* recorded range
LegacyCells(window, range) ==
    {c \in (window.minX..window.maxX) \X (window.minY..window.maxY) :
        c[2] > range.maxY \/ c[2] < range.minY \/ c[1] > range.maxX \/ c[1] < range.minX}

\* legacy camera-update, for a camera of scale 1 whose viewport is at (left, top);
\* once destroy has run there is no this.camera, and reading its buffer throws
LegacyCameraUpdate(left, top) ==
    /\ legacy /= NoLegacy
    /\ LegacyFrame
    /\ IF legacy.camera = NoCamera
       THEN legacy' = [legacy EXCEPT !.last = [NoRedraw("camera-update") EXCEPT !.threw = TRUE]]
       ELSE /\ legacy.ready
            /\ legacy.loaded
            /\ LegacyExact(left, legacy.worldWidth, legacy.tilesWidth, legacy.viewport.width)
            /\ LegacyExact(top, legacy.worldHeight, legacy.tilesHeight, legacy.viewport.height)
            /\ LET buf == legacy.camera.buffer
                   range == legacy.cache
                   vw == legacy.viewport.width
                   vh == legacy.viewport.height
                   camL == LegacyConvertCamera(left, legacy.worldWidth, legacy.tilesWidth, vw)
                   camT == LegacyConvertCamera(top, legacy.worldHeight, legacy.tilesHeight, vh)
                   vpL == FloorDiv(camL, legacy.tileWidth) * legacy.tileWidth
                   vpT == FloorDiv(camT, legacy.tileHeight) * legacy.tileHeight
                   moved == (Abs(legacy.camera.x - vpL) > buf \/ Abs(legacy.camera.y - vpT) > buf)
                                /\ legacy.mapWidth > 0
                   maxX == Min(CeilDiv(vpL + vw + buf, legacy.tileWidth * legacy.scaleX), legacy.mapWidth) - 1
                   minX == Max(FloorDiv(vpL - buf, legacy.tileWidth * legacy.scaleX), 0)
                   maxY == Min(CeilDiv(vpT + vh + buf, legacy.tileHeight * legacy.scaleY), legacy.mapHeight) - 1
                   minY == Max(FloorDiv(vpT - buf, legacy.tileHeight * legacy.scaleY), 0)
                   outside == maxY > range.maxY \/ minY < range.minY \/ maxX > range.maxX \/ minX < range.minX
                   canvas == legacy.cacheCanvas
                   window == Range(minX, minY, maxX, maxY)
               IN  legacy' =
                     [legacy EXCEPT
                        !.viewport = [@ EXCEPT !.left = left, !.top = top],
                        !.camera = IF moved THEN [@ EXCEPT !.x = vpL, !.y = vpT] ELSE @,
                        !.cacheCanvas = IF moved /\ outside THEN TRUE ELSE @,
                        !.cache = IF moved /\ outside /\ canvas THEN window ELSE @,
                        !.last = IF moved /\ outside
                                 THEN [name |-> "camera-update", redrew |-> TRUE, window |-> window,
                                       cells |-> LegacyCells(window, range),
                                       blit |-> IF canvas
                                                THEN <<(range.minX - minX) * legacy.tileWidth,
                                                       (range.minY - minY) * legacy.tileHeight>>
                                                ELSE <<>>,
                                       threw |-> FALSE]
                                 ELSE NoRedraw("camera-update")]

\* legacy destroy: this.imageMap.length = 0, and this.tiles, this.camera, this.stage
\* and this.tilesToRender become undefined; without a tilesToRender (before
\* handle-render-load, or after an earlier destroy) removeAllChildren throws
LegacyDestroy ==
    /\ legacy /= NoLegacy
    /\ LegacyFrame
    /\ IF ~legacy.ready
       THEN legacy' = [legacy EXCEPT !.last = [NoRedraw("destroy") EXCEPT !.threw = TRUE]]
       ELSE legacy' = [legacy EXCEPT !.mapWidth = 0,
                                     !.mapHeight = 0,
                                     !.camera = NoCamera,
                                     !.ready = FALSE,
                                     !.cacheCanvas = FALSE,
                                     !.last = NoRedraw("destroy")]

(* ---------------------------------------------------------------------- *)
(* Serialization: toJSON                                                   *)
(* ---------------------------------------------------------------------- *)
\* toJSON: imgMap[x][y] = imageMap[x][y].id
IdOf(tile) == IF tile.kind = "template" THEN StringOf(tile.id) ELSE Undefined

\* toJSON().imageMap
toJSON ==
    /\ pc = "idle"
    /\ UNCHANGED overlayVars
    /\ tileMap /= <<>>
    /\ saved' = [done |-> TRUE,
                 map |-> [x \in DOMAIN tileMap |-> [y \in DOMAIN tileMap[x] |-> IdOf(tileMap[x][y])]]]
    /\ UNCHANGED <<tileMap, restored, upperMaps, templates, tileChildren, tileValue, decoded, legacy, shown, stage>>
    /\ UNCHANGED <<cfg, ready, pc, cacheAll, buffer, render, populate, cacheWidth, cacheHeight,
                   cacheTilesWidth, cacheTilesHeight, cache, cachePixels, laxCam, worldWidth,
                   worldHeight, layers, updateCache, cacheTexture, spriteTexture,
                   spriteCacheTexture, texturesCreated, sprite, oldCacheSprite, cacheGrid,
                   gridX, gridY, baked, tileCells, camera, loaded, pending, ev>>

\* a component built from the saved definition resolves it: createMap(imageMap)
Reload ==
    /\ pc = "idle"
    /\ UNCHANGED overlayVars
    /\ saved.done
    /\ restored' = [done |-> TRUE, threw |-> createMap(saved.map).threw, map |-> createMap(saved.map).map]
    /\ UNCHANGED <<tileMap, saved, upperMaps, templates, tileChildren, tileValue, decoded, legacy, shown, stage>>
    /\ UNCHANGED <<cfg, ready, pc, cacheAll, buffer, render, populate, cacheWidth, cacheHeight,
                   cacheTilesWidth, cacheTilesHeight, cache, cachePixels, laxCam, worldWidth,
                   worldHeight, layers, updateCache, cacheTexture, spriteTexture,
                   spriteCacheTexture, texturesCreated, sprite, oldCacheSprite, cacheGrid,
                   gridX, gridY, baked, tileCells, camera, loaded, pending, ev>>

\* destroy, where a tilesSprite exists: the textures texture.destroy(true) is called on,
\* in order, leaving out the alternate
DestroyTextureAlone(texture, paired) == <<PairTexture(texture)>>

\* destroy, where a tilesSprite exists: the textures texture.destroy(true) is called on,
\* in order: if (this.tilesSprite.texture.alternate) { alternate.destroy(true); }
\* this.tilesSprite.texture.destroy(true);
DestroyTextures(texture, paired) ==
    IF paired
    THEN <<PairTexture(alternate(texture)), PairTexture(texture)>>
    ELSE <<PairTexture(texture)>>

\* destroy, where a grid exists: the blocks grid[x][y], x by x and y by y
RECURSIVE DestroyBlocks(_, _, _)
DestroyBlocks(grid, x, y) ==
    IF x > Len(grid) THEN <<>>
    ELSE IF y > Len(grid[x]) THEN DestroyBlocks(grid, x + 1, 1)
    ELSE <<BlockTexture(x, y)>> \o DestroyBlocks(grid, x, y + 1)

\* the members of a sequence
Members(seq) == {seq[i] : i \in DOMAIN seq}

\* the children a container keeps once every display object of list has been
\* destroyed: this.cachedDisplayObjects[x].destroy() detaches the display object from
\* its parent, and leaves its mask, a display object of its own, where it is
Undestroyed(children, list) ==
    SelectSeq(children, LAMBDA k : ~(k.kind = "entity" /\ k.of \in ObjectsOf(list)))

\* destroy: before handle-render-load has found a container there is no
\* this.parentContainer, and this.parentContainer.removeChild throws.
\* this.tiles[key].destroy() destroys every instance of every template, which takes
\* each tile out of tileContainer; where there is a doMap, every baked display object
\* is destroyed, which takes it out of mapContainer.
\* img.recycle(2), cachedDisplayObjects.recycle() and map.recycle() hand the arrays to
\* Array.prototype.recycle, which is not part of the component: emptied tells whether
\* it empties the arrays it is given or leaves their content in place.
Destroy(emptied) ==
    /\ pc = "idle"
    /\ pc' = "destroyed"
    /\ UNCHANGED <<saved, restored, tileValue, decoded, legacy, shown>>
    /\ UNCHANGED <<cfg, ready, cacheAll, buffer, render, populate, cacheWidth, cacheHeight,
                   cacheTilesWidth, cacheTilesHeight, cache, cachePixels, laxCam, worldWidth,
                   worldHeight, updateCache, cacheTexture, spriteCacheTexture,
                   texturesCreated, sprite, oldCacheSprite, gridX, gridY,
                   camera, loaded, pending, drawn>>
    /\ IF cacheGrid /= <<>>
       THEN /\ stage' = [stage EXCEPT
                            !.released = @ \o DestroyBlocks(cacheGrid, 1, 1),
                            !.nodes = @ \ {BlockNode(b[2], b[3]) :
                                               b \in Members(DestroyBlocks(cacheGrid, 1, 1))}]
            /\ cacheGrid' = <<>>
            /\ ev' = NoEv("destroy")
       ELSE IF spriteTexture /= 0
       THEN /\ stage' = [stage EXCEPT
                            !.released = @ \o DestroyTextures(spriteTexture, spriteCacheTexture /= 0),
                            !.nodes = @ \ {TilesSpriteNode}]
            /\ ev' = NoEv("destroy")
            /\ UNCHANGED cacheGrid
       ELSE IF ready
       THEN /\ stage' = [stage EXCEPT !.nodes = @ \ {MapContainerNode}]
            /\ ev' = NoEv("destroy")
            /\ UNCHANGED cacheGrid
       ELSE /\ ev' = [NoEv("destroy") EXCEPT !.threw = TRUE]
            /\ UNCHANGED <<stage, cacheGrid>>
    /\ IF ev'.threw
       THEN UNCHANGED <<templates, spriteTexture, objects, baked, doMap, layers, tileMap,
                        upperMaps, tileChildren, tileCells, mapChildren>>
       ELSE /\ templates' = <<>>
            /\ spriteTexture' = 0
            /\ tileChildren' = <<>>
            /\ tileCells' = {}
            /\ mapChildren' = IF populate = "populateTilesAndEntities"
                              THEN Undestroyed(mapChildren, objects)
                              ELSE mapChildren
            /\ IF emptied
               THEN /\ layers' = 0
                    /\ tileMap' = <<>>
                    /\ upperMaps' = <<>>
                    /\ objects' = <<>>
                    /\ baked' = 0
                    /\ doMap' = [c \in DOMAIN doMap |-> <<>>]
               ELSE UNCHANGED <<layers, tileMap, upperMaps, objects, baked, doMap>>

\* the map's content is not followed
MapUnread ==
    /\ tileMap = <<>>
    /\ saved = [done |-> FALSE, map |-> <<>>]
    /\ restored = [done |-> FALSE, threw |-> FALSE, map |-> <<>>]
    /\ upperMaps = <<>>
    /\ templates = <<>>
    /\ tileChildren = <<>>
    /\ tileValue = NoValue
    /\ decoded = NotDecoded
    /\ legacy = NoLegacy
    /\ shown = NotShown
    /\ stage = NoStage

\* initialize: this.imageMap = Array.setUp(this.createMap(imgMap))
MapRead ==
    /\ \E def \in MapDefinitions(cfg.tilesWidth, cfg.tilesHeight) :
           /\ tileMap = createMap(def).map
           /\ templates = WithTiles(<<>>, IdsOf(def))
    /\ saved = [done |-> FALSE, map |-> <<>>]
    /\ restored = [done |-> FALSE, threw |-> FALSE, map |-> <<>>]
    /\ upperMaps = <<>>
    /\ tileChildren = <<>>
    /\ tileValue = NoValue
    /\ decoded = NotDecoded
    /\ legacy = NoLegacy
    /\ shown = NotShown
    /\ stage = NoStage

(* ---------------------------------------------------------------------- *)
(* Specification                                                           *)
(* ---------------------------------------------------------------------- *)
\* the worlds the camera reports: the layer's own size, or (for a scrolling layer
\* without buffer margin) a world half as long to scroll as the layer
Worlds == {<<layerWidth(cfg), layerHeight(cfg)>>} \cup
          (IF cfg.buffer = 0 /\ layerWidth(cfg) > cfg.maximumBuffer * 2 /\ camera.width = 2
           THEN {<<camera.width + (layerWidth(cfg) - camera.width) \div 2, layerHeight(cfg)>>}
           ELSE {})

\* the camera's moves: along one axis at a time; a layer with a buffer margin is
\* scrolled by whole tiles, one without by pixels
Moves == {m \in CameraSteps \X {-1, 0, 1} :
             /\ m[1] = 0 \/ m[2] = 0
             /\ cfg.buffer /= 0 => m[1] % cfg.tileWidth = 0}

\* the change-tile events sent: where the map's content is followed, an identifier
\* for the second cell of the top row, or a tile for the last cell of the first
\* column, of a layer the map has, with and without z
Edits ==
    IF tileMap = <<>>
    THEN {[tile |-> "tile0", x |-> 0, y |-> 0, z |-> <<>>]}
    ELSE {e \in [tile : {"tile-1", "tile5"}, x : {0, 1}, y : {0, cfg.tilesHeight - 1},
                 z : {<<>>} \cup {<<k>> : k \in 0..(layers - 1)}] :
             /\ (e.x = 1) = (e.y = 0)
             /\ e.x = 0 => e.tile = "tile5"}

Next ==
    \/ \E hasContainer \in BOOLEAN : HandleRenderLoad(hasContainer)
    \/ CreateGridOuter
    \/ CreateGridInner
    \/ \E name \in {"cache-sprite"}, entity \in EntitiesFor(cfg) : CacheSprite(name, entity)
    \/ \E hasMap \in BOOLEAN : AddTiles(hasMap)
    \/ \E e \in Edits : ChangeTile(e.tile, e.x, e.y, e.z)
    \/ HandleRender
    \/ \E w \in Worlds : CameraLoaded(w[1], w[2])
    \/ \E m \in Moves, w \in ViewportWidths, h \in ViewportHeights :
           CameraUpdate(m[1], m[2] * cfg.tileHeight, w, h)

Init == InitFor(Scenarios) /\ MapUnread

Spec == Init /\ [][Next]_vars

\* setup alone, on every configuration
SetupInit == InitFor(Configs) /\ MapUnread

SetupNext ==
    \/ \E hasContainer \in BOOLEAN : HandleRenderLoad(hasContainer)
    \/ CreateGridOuter
    \/ CreateGridInner

SetupSpec == SetupInit /\ [][SetupNext]_vars /\ WF_vars(CreateGridOuter) /\ WF_vars(CreateGridInner)

\* serialization alone, on every map definition
MapConfigs == {c \in Scenarios : Small(c) /\ c.tilesWidth = c.tilesHeight}

MapInit == InitFor(MapConfigs) /\ MapRead

MapNext ==
    \/ toJSON
    \/ Reload

MapSpec == MapInit /\ [][MapNext]_vars

\* the edits of the map's content, on the tall map under its sliding cache
EditConfigs == {c \in Scenarios : Tall(c)}

\* initialize: this.imageMap = Array.setUp(this.createMap(imgMap))
EditRead ==
    /\ \E def \in LayerDefinitions(cfg.tilesWidth, cfg.tilesHeight) :
           /\ tileMap = createMap(def).map
           /\ templates = WithTiles(<<>>, IdsOf(def))
    /\ saved = [done |-> FALSE, map |-> <<>>]
    /\ restored = [done |-> FALSE, threw |-> FALSE, map |-> <<>>]
    /\ upperMaps = <<>>
    /\ tileChildren = <<>>
    /\ tileValue = NoValue
    /\ decoded = NotDecoded
    /\ legacy = NoLegacy
    /\ shown = NotShown
    /\ stage = NoStage

EditInit == InitFor(EditConfigs) /\ EditRead

EditNext ==
    \/ HandleRenderLoad(TRUE)
    \/ \E hasMap \in BOOLEAN : AddTiles(hasMap)
    \/ \E e \in Edits : ChangeTile(e.tile, e.x, e.y, e.z)
    \/ HandleRender
    \/ CameraLoaded(layerWidth(cfg), layerHeight(cfg))
    \/ CameraUpdate(0, 0, camera.width, camera.height)

EditSpec == EditInit /\ [][EditNext]_vars

\* the viewport resized and moved by pixels over the long map under its sliding cache
ResizeConfigs ==
    {[tilesWidth |-> 2 * MaxTilesWidth - 1, tilesHeight |-> 1, tileWidth |-> 2, tileHeight |-> 2,
      maximumBuffer |-> 8, buffer |-> 1, cacheAll |-> FALSE, tileCache |-> TRUE,
      entityCache |-> FALSE, left |-> 0, top |-> 0, scaleX |-> 1, scaleY |-> 1,
      scaleDen |-> 1]}

ResizeInit == InitFor(ResizeConfigs) /\ MapUnread

ResizeNext ==
    \/ HandleRenderLoad(TRUE)
    \/ CameraLoaded(layerWidth(cfg), layerHeight(cfg))
    \/ \E dx \in CameraSteps, w \in ViewportWidths : CameraUpdate(dx, 0, w, camera.height)

ResizeSpec == ResizeInit /\ [][ResizeNext]_vars

\* edits under a moving camera, on the tall map under its sliding cache, with what the
\* two textures show
ShownRead ==
    /\ \E def \in LayerDefinitions(cfg.tilesWidth, cfg.tilesHeight) :
           /\ tileMap = createMap(def).map
           /\ templates = WithTiles(<<>>, IdsOf(def))
    /\ saved = [done |-> FALSE, map |-> <<>>]
    /\ restored = [done |-> FALSE, threw |-> FALSE, map |-> <<>>]
    /\ upperMaps = <<>>
    /\ tileChildren = <<>>
    /\ tileValue = NoValue
    /\ decoded = NotDecoded
    /\ legacy = NoLegacy
    /\ shown = [t \in 1..2 |-> Cleared]
    /\ stage = NoStage

ShownInit == InitFor(EditConfigs) /\ ShownRead

\* the edits sent while the textures are followed: those of the one cell, without z
ShownEdits == {e \in Edits : e.x = 1 /\ e.z = <<>>}

\* the camera's moves while the textures are followed: down, or sideways along the
\* top of the map
ShownMoves == {m \in Moves : m[2] >= 0 /\ (m[1] /= 0 => camera.top = cfg.top)}

ShownNext ==
    \/ HandleRenderLoad(TRUE)
    \/ \E e \in ShownEdits : ChangeTile(e.tile, e.x, e.y, e.z)
    \/ HandleRender
    \/ CameraLoaded(layerWidth(cfg), layerHeight(cfg))
    \/ \E m \in ShownMoves :
           CameraUpdate(m[1], m[2] * cfg.tileHeight, camera.width, camera.height)

ShownSpec == ShownInit /\ [][ShownNext]_vars

\* the camera's conversion, on the tall map without buffer margin, drawn at either
\* scale, under worlds as long as the layer, as the viewport, and between and beyond
LaxScales == {1, 2}

LaxConfigs ==
    {[c EXCEPT !.scaleX = s, !.scaleY = s] :
        c \in {c \in Configs : /\ Tall(c) /\ c.tileCache /\ ~c.cacheAll /\ ~c.entityCache
                                /\ c.buffer = 0 /\ c.left = 0},
        s \in LaxScales}

LaxInit == InitFor(LaxConfigs) /\ MapUnread

\* the world sizes camera-loaded reports along an axis with this layer size
LaxWorlds(layer, size, scale) ==
    {layer * scale, size * scale, (size + (layer - size) \div 2) * scale,
     (size + 2 * (layer - size)) * scale}

LaxNext ==
    \/ HandleRenderLoad(TRUE)
    \/ \E ww \in LaxWorlds(layerWidth(cfg), camera.width, cfg.scaleX),
          wh \in LaxWorlds(layerHeight(cfg), camera.height, cfg.scaleY) :
           (ww = layerWidth(cfg) * cfg.scaleX \/ wh = layerHeight(cfg) * cfg.scaleY)
               /\ CameraLoaded(ww, wh)
    \/ \E m \in {-1, 0, 1} \X {-1, 0, 1} :
           (m[1] = 0 \/ m[2] = 0) /\ CameraUpdate(m[1], m[2], camera.width, camera.height)

LaxSpec == LaxInit /\ [][LaxNext]_vars

\* the decoding of identifiers: every setting of the three flag bits and of the bit
\* under them, over the least frame, a small one and the greatest
TileValues ==
    {[hi |-> f * RotateBit + b * FrameHigh + w[1], lo |-> w[2]] :
        f \in 0..7, b \in {0, 1}, w \in {<<0, 0>>, <<0, 5>>, <<FrameHigh - 1, HalfWord - 1>>}}

TransformInit ==
    /\ InitFor({c \in Scenarios : Oversized(c) /\ ~c.cacheAll})
    /\ tileMap = <<>>
    /\ saved = [done |-> FALSE, map |-> <<>>]
    /\ restored = [done |-> FALSE, threw |-> FALSE, map |-> <<>>]
    /\ upperMaps = <<>>
    /\ templates = <<>>
    /\ tileChildren = <<>>
    /\ tileValue \in TileValues
    /\ decoded = NotDecoded
    /\ legacy = NoLegacy
    /\ shown = NotShown
    /\ stage = NoStage

TransformNext ==
    \/ TransformCheck
    \/ TransformCheckLegacy

TransformSpec == TransformInit /\ [][TransformNext]_vars

\* setup under maximum buffers that are powers of two and one that is not
BufferMaxima == {4, 6, 8}

BufferConfigs ==
    {[c \in DOMAIN d |-> IF c = "maximumBuffer" THEN m ELSE d[c]] :
        d \in {c \in Configs : c.maximumBuffer = 4 /\ c.left = 0 /\ ~c.entityCache},
        m \in BufferMaxima}

BufferInit == InitFor(BufferConfigs) /\ MapUnread

BufferNext ==
    \/ HandleRenderLoad(TRUE)
    \/ CreateGridOuter
    \/ CreateGridInner

BufferSpec == BufferInit /\ [][BufferNext]_vars

\* the grid of caches, on every map without buffer margin or entities
GridConfigs == {c \in Configs : c.tileCache /\ c.buffer = 0 /\ c.left = 0 /\ ~c.entityCache}

GridInit == InitFor(GridConfigs) /\ MapUnread

GridNext ==
    \/ HandleRenderLoad(TRUE)
    \/ CreateGridOuter
    \/ CreateGridInner
    \/ \E e \in Edits : ChangeTile(e.tile, e.x, e.y, e.z)
    \/ HandleRender

GridSpec == GridInit /\ [][GridNext]_vars

\* setup and the camera at scales of a half, one and two
Scales == {<<1, 2>>, <<1, 1>>, <<2, 1>>}

ScaleConfigs ==
    {[c EXCEPT !.scaleX = k[1], !.scaleY = k[1], !.scaleDen = k[2]] :
        c \in {d \in Configs : d.tileCache /\ d.left = 0 /\ ~d.entityCache /\ d.buffer \in {0, 1}},
        k \in Scales}

ScaleInit == InitFor(ScaleConfigs) /\ MapUnread

\* the worlds the camera reports at a scale: the layer's own size, and the size the
\* layer has once scaled, where that is a whole number of pixels
ScaleWorlds ==
    {<<layerWidth(cfg), layerHeight(cfg)>>} \cup
    (IF Divides(cfg.scaleDen, layerWidth(cfg) * cfg.scaleX) /\ Divides(cfg.scaleDen, layerHeight(cfg) * cfg.scaleY)
     THEN {<<ExactDiv(layerWidth(cfg) * cfg.scaleX, cfg.scaleDen),
             ExactDiv(layerHeight(cfg) * cfg.scaleY, cfg.scaleDen)>>}
     ELSE {})

ScaleNext ==
    \/ HandleRenderLoad(TRUE)
    \/ CreateGridOuter
    \/ CreateGridInner
    \/ \E w \in ScaleWorlds : CameraLoaded(w[1], w[2])
    \/ \E dx \in CameraSteps : CameraUpdate(dx, 0, camera.width, camera.height)

ScaleSpec == ScaleInit /\ [][ScaleNext]_vars

\* setup, the camera, baked entities and destroy, on every scenario
DestroyInit == InitFor(Scenarios) /\ MapUnread

DestroyNext ==
    \/ \E hasContainer \in BOOLEAN : HandleRenderLoad(hasContainer)
    \/ CreateGridOuter
    \/ CreateGridInner
    \/ \E w \in Worlds : CameraLoaded(w[1], w[2])
    \/ \E m \in Moves, w \in ViewportWidths, h \in ViewportHeights :
           CameraUpdate(m[1], m[2] * cfg.tileHeight, w, h)
    \/ \E entity \in EntitiesFor(cfg) : CacheSprite("cache-sprite", entity)
    \/ \E emptied \in BOOLEAN : Destroy(emptied)

DestroySpec == DestroyInit /\ [][DestroyNext]_vars

\* the legacy component alone, on a map wider and taller than its viewport
LegacyBuffers == {1, 2}

LegacyInit ==
    /\ InitFor({c \in Scenarios : Oversized(c) /\ ~c.cacheAll})
    /\ tileMap = <<>>
    /\ saved = [done |-> FALSE, map |-> <<>>]
    /\ restored = [done |-> FALSE, threw |-> FALSE, map |-> <<>>]
    /\ upperMaps = <<>>
    /\ templates = <<>>
    /\ tileChildren = <<>>
    /\ tileValue = NoValue
    /\ decoded = NotDecoded
    /\ shown = NotShown
    /\ stage = NoStage
    /\ \E buf \in LegacyBuffers :
           legacy = LegacyComponent(MaxTilesWidth + 1, MaxTilesHeight, 2, buf, 4, 4)

\* the viewport's moves: a pixel or a tile along one axis, inside the world
LegacyMoves ==
    {m \in {-2, -1, 0, 1, 2} \X {-1, 0, 1} :
        /\ m[1] = 0 \/ m[2] = 0
        /\ legacy.viewport.left + m[1] >= 0
        /\ legacy.viewport.left + m[1] + legacy.viewport.width <= legacy.worldWidth
        /\ legacy.viewport.top + m[2] >= 0
        /\ legacy.viewport.top + m[2] + legacy.viewport.height <= legacy.worldHeight}

LegacyNext ==
    \/ LegacyHandleRenderLoad
    \/ \E half \in BOOLEAN :
           LegacyCameraLoaded(IF half
                              THEN legacy.viewport.width +
                                   (legacy.mapWidth * legacy.tileWidth - legacy.viewport.width) \div 2
                              ELSE legacy.mapWidth * legacy.tileWidth,
                              legacy.mapHeight * legacy.tileHeight)
    \/ \E m \in LegacyMoves :
           LegacyCameraUpdate(legacy.viewport.left + m[1], legacy.viewport.top + m[2])
    \/ LegacyDestroy

LegacySpec == LegacyInit /\ [][LegacyNext]_vars

\* the entity overlay, on the maps it is followed on
OverlayInit == InitFor(OverlayConfigs) /\ MapUnread

OverlayNext ==
    \/ \E hasContainer \in BOOLEAN : HandleRenderLoad(hasContainer)
    \/ CreateGridOuter
    \/ CreateGridInner
    \/ \E name \in {"cache-sprite", "peer-entity-added"}, entity \in EntitiesFor(cfg) : CacheSprite(name, entity)
    \/ HandleRender
    \/ CameraLoaded(layerWidth(cfg), layerHeight(cfg))
    \/ CameraUpdate(cfg.tileWidth, 0, camera.width, camera.height)

OverlaySpec == OverlayInit /\ [][OverlayNext]_vars

(* ---------------------------------------------------------------------- *)
(* Vocabulary of the properties                                            *)
(* ---------------------------------------------------------------------- *)
\* the cells of a tile region
RegionCells(r) == IF r.nan THEN {} ELSE (r.left..r.right) \X (r.top..r.bottom)

\* box a lies within box b, edge by edge
InsideBox(a, b) ==
    /\ ~a.nan /\ ~b.nan
    /\ b.left <= a.left /\ a.right <= b.right
    /\ b.top <= a.top /\ a.bottom <= b.bottom

\* a tile region that stays on the map
OnMap(r) ==
    /\ 0 <= r.left /\ r.right <= cfg.tilesWidth - 1
    /\ 0 <= r.top /\ r.bottom <= cfg.tilesHeight - 1

\* the cells of the map whose tiles the mapped viewport overlaps
ViewportCells(lax) ==
    {c \in (0..(cfg.tilesWidth - 1)) \X (0..(cfg.tilesHeight - 1)) :
        /\ c[1] * cfg.tileWidth + cfg.left < lax.right
        /\ (c[1] + 1) * cfg.tileWidth + cfg.left > lax.left
        /\ c[2] * cfg.tileHeight + cfg.top < lax.bottom
        /\ (c[2] + 1) * cfg.tileHeight + cfg.top > lax.top}

\* the mapped viewport reaches exactly one tile past an edge of the pixel box b
OneTileBeyond(lax, b) ==
    /\ ~b.nan
    /\ \/ lax.right = b.right + cfg.tileWidth /\ b.top <= lax.top /\ lax.bottom <= b.bottom
       \/ lax.left = b.left - cfg.tileWidth /\ b.top <= lax.top /\ lax.bottom <= b.bottom
       \/ lax.bottom = b.bottom + cfg.tileHeight /\ b.left <= lax.left /\ lax.right <= b.right
       \/ lax.top = b.top - cfg.tileHeight /\ b.left <= lax.left /\ lax.right <= b.right

\* the last event was a camera-update handled by a set-up sliding-window cache
\* that already held a region
SlidingCameraUpdate ==
    /\ ev.name = "camera-update"
    /\ ready
    /\ Mode = "sliding"
    /\ ~ev.oldCache.empty
    /\ ~ev.oldCachePixels.empty

(* ---------------------------------------------------------------------- *)
(* C1                                                                      *)
(* ---------------------------------------------------------------------- *)
\* C1: in sliding-window mode with a region cached, a camera-update whose mapped
\* viewport lies inside cachePixels populates nothing, renders nothing and swaps no
\* texture; the CacheRegion, cachePixels, the textures, the tiles on the container
\* and the window size stay as they were: only laxCam and the sprite position move.
C1_ContainedUpdateDrawsNothing ==
    [][(/\ ev'.name = "camera-update"
        /\ ready
        /\ Mode = "sliding"
        /\ ~cache.empty
        /\ ~cachePixels.empty
        /\ InsideBox(laxCam', cachePixels))
       => (/\ ev'.populates = 0
           /\ ev'.renders = 0
           /\ ev'.swaps = 0
           /\ UNCHANGED <<cache, cachePixels, cacheTexture, spriteTexture, spriteCacheTexture,
                          tileCells, oldCacheSprite, cacheTilesWidth, cacheTilesHeight,
                          updateCache, cacheGrid>>)]_vars

\* a contained camera-update drew nothing although the window centred on the
\* viewport it was given is not the cached one
C1_Witness ==
    /\ SlidingCameraUpdate
    /\ InsideBox(laxCam, ev.oldCachePixels)
    /\ ev.populates = 0
    /\ cache = ev.oldCache
    /\ Window(laxCam, cacheTilesWidth, cacheTilesHeight) /= cache

(* ---------------------------------------------------------------------- *)
(* C2                                                                      *)
(* ---------------------------------------------------------------------- *)
\* C2: in sliding-window mode, from a cached state, a camera-update that takes the
\* mapped viewport exactly one tile beyond the cached pixel box makes exactly one
\* redraw (one populate, one render, one swap), and the CacheRegion recorded after it
\* holds every tile of the map the new viewport overlaps.
C2_OneTileBeyondRedrawsOnceAndCovers ==
    (SlidingCameraUpdate /\ OneTileBeyond(laxCam, ev.oldCachePixels) /\ ViewportCells(laxCam) /= {})
    => (/\ ev.populates = 1
        /\ ev.renders = 1
        /\ ev.swaps = 1
        /\ ViewportCells(laxCam) \subseteq RegionCells(cache))

\* C2, restated where the code has every chance: at least one tile fits the cache,
\* the new viewport lies on the map, and the window is as large as the viewport
\* with its buffer margin.
C2_Counterexample ==
    (/\ cacheTilesWidth >= 1
     /\ cacheTilesHeight >= 1
     /\ InsideBox(laxCam, SetBounds(cfg.left, cfg.top, cfg.left + layerWidth(cfg), cfg.top + layerHeight(cfg)))
     /\ cacheTilesWidth * cfg.tileWidth >= camera.width + 2 * buffer
     /\ cacheTilesHeight * cfg.tileHeight >= camera.height + 2 * buffer)
    => C2_OneTileBeyondRedrawsOnceAndCovers

(* ---------------------------------------------------------------------- *)
(* C3                                                                      *)
(* ---------------------------------------------------------------------- *)
\* C3: in a camera-triggered sliding-window redraw with a non-empty previous
\* CacheRegion, the populate pass adds tiles exactly for the cells of the new window
\* outside the previous region, and the previous cache image is drawn at the pixel
\* offset (old.left * tileWidth, old.top * tileHeight).
C3_DeltaPopulateAndBlit ==
    (SlidingCameraUpdate /\ ev.swaps = 1)
    => (/\ cache = ev.window
        /\ ev.cells = RegionCells(cache) \ RegionCells(ev.oldCache)
        /\ tileCells = ev.cells
        /\ ev.blit = <<ev.oldCache.left * cfg.tileWidth, ev.oldCache.top * cfg.tileHeight>>)

\* a redraw whose new window overlaps the previous region: some cells are added and
\* some are left to the blit
C3_Witness ==
    /\ SlidingCameraUpdate
    /\ ev.swaps = 1
    /\ ev.cells /= {}
    /\ ev.cells /= RegionCells(cache)
    /\ RegionCells(cache) \cap RegionCells(ev.oldCache) /= {}

(* ---------------------------------------------------------------------- *)
(* C4                                                                      *)
(* ---------------------------------------------------------------------- *)
\* C4: the recorded CacheRegion, and the candidate window of every camera-update that
\* recomputes it, have 0 <= left, right <= tilesWidth - 1, 0 <= top and
\* bottom <= tilesHeight - 1; a window the camera centres past an edge of the map
\* is shifted to end exactly at that edge.
C4_WindowStaysOnMap ==
    /\ (~cache.empty => OnMap(cache))
    /\ (ev.name = "camera-update" /\ ev.stale) =>
          LET w == ev.window
              nx == NaiveStart(laxCam.left, laxCam.right, cfg.left, cfg.tileWidth, cacheTilesWidth)
              ny == NaiveStart(laxCam.top, laxCam.bottom, cfg.top, cfg.tileHeight, cacheTilesHeight)
          IN  /\ OnMap(w)
              /\ w.right - w.left = cacheTilesWidth - 1
              /\ w.bottom - w.top = cacheTilesHeight - 1
              /\ (nx < 0 => w.left = 0)
              /\ (nx >= 0 /\ nx + cacheTilesWidth - 1 > cfg.tilesWidth - 1 => w.right = cfg.tilesWidth - 1)
              /\ (nx >= 0 /\ nx + cacheTilesWidth - 1 <= cfg.tilesWidth - 1 => w.left = nx)
              /\ (ny < 0 => w.top = 0)
              /\ (ny >= 0 /\ ny + cacheTilesHeight - 1 > cfg.tilesHeight - 1 => w.bottom = cfg.tilesHeight - 1)
              /\ (ny >= 0 /\ ny + cacheTilesHeight - 1 <= cfg.tilesHeight - 1 => w.top = ny)

\* the camera is past the right edge of the map and the window, centred beyond the
\* last column, was shifted back to end at it
C4_Witness ==
    /\ ev.name = "camera-update"
    /\ ev.stale
    /\ cacheTilesWidth >= 1
    /\ laxCam.right > cfg.left + layerWidth(cfg)
    /\ NaiveStart(laxCam.left, laxCam.right, cfg.left, cfg.tileWidth, cacheTilesWidth) + cacheTilesWidth - 1 > cfg.tilesWidth - 1
    /\ ev.window.right = cfg.tilesWidth - 1
    /\ cache = ev.window

(* ---------------------------------------------------------------------- *)
(* C5                                                                      *)
(* ---------------------------------------------------------------------- *)
\* the populate passes of one redraw: one per cache, every cache once
OnePass == IF cacheGrid /= <<>> THEN Cardinality(GridBlocks) ELSE 1

\* C5: every dirty trigger since the last handle-render leaves updateCache set; the
\* next handle-render makes exactly one redraw pass however many triggers came and
\* leaves updateCache false; a handle-render that finds it false populates and renders
\* nothing.
C5_TriggersCoalesce ==
    /\ (pending >= 1 => updateCache)
    /\ (ev.name = "handle-render") =>
          /\ ~updateCache
          /\ pending = 0
          /\ (ev.coalesced >= 1 => ev.dirty)
          /\ (ev.dirty => ev.populates = OnePass /\ ev.renders = OnePass * RendersOf(render))
          /\ (~ev.dirty => ev.populates = 0 /\ ev.renders = 0 /\ ev.cells = {})

\* a handle-render that drew once for two or more triggers
C5_Witness ==
    /\ ev.name = "handle-render"
    /\ ready
    /\ ev.coalesced >= 2
    /\ ev.populates = OnePass
    /\ ev.renders >= 1
    /\ ~updateCache

(* ---------------------------------------------------------------------- *)
(* C6, C7, C8: the strategy selected at setup (checked under SetupSpec)     *)
(* ---------------------------------------------------------------------- *)
\* the map fits one texture of the maximum size: W <= M and H <= M
FitsOne(c) == layerWidth(c) <= c.maximumBuffer /\ layerHeight(c) <= c.maximumBuffer

\* the map fits a 2x1 or a 1x2 arrangement of textures of the maximum size
FitsTwo(c) ==
    \/ layerWidth(c) <= 2 * c.maximumBuffer /\ layerHeight(c) <= c.maximumBuffer
    \/ layerWidth(c) <= c.maximumBuffer /\ layerHeight(c) <= 2 * c.maximumBuffer

\* C6: with tile caching enabled, setup selects the single full-map cache if and only
\* if W <= M and H <= M; it then makes one texture, records the whole map as the
\* CacheRegion and bakes every cell of the map during setup.
C6_SingleIffFitsOne ==
    (cfg.tileCache /\ ready) =>
        /\ (Mode = "single" <=> FitsOne(cfg))
        /\ (Mode = "single" =>
               /\ texturesCreated = 1
               /\ cacheTexture = 1
               /\ cache = SetBounds(0, 0, cfg.tilesWidth - 1, cfg.tilesHeight - 1)
               /\ tileCells = (0..(cfg.tilesWidth - 1)) \X (0..(cfg.tilesHeight - 1))
               /\ ev.name = "handle-render-load"
               /\ ev.populates = 1
               /\ ev.renders = 1
               /\ ev.dest = cacheTexture)

\* a map exactly as large as the maximum texture was given the single cache
C6_Witness ==
    /\ cfg.tileCache
    /\ ready
    /\ layerWidth(cfg) = cfg.maximumBuffer
    /\ Mode = "single"
    /\ texturesCreated = 1
    /\ Cardinality(tileCells) = cfg.tilesWidth * cfg.tilesHeight

\* C7: with tile caching enabled, a map that does not fit one texture but fits a 2x1
\* or 1x2 arrangement of maximum-size textures is given the grid cache, and cacheAll
\* reads true after setup whatever it was configured to.
C7_GridWhenFitsTwo ==
    (cfg.tileCache /\ ready /\ ~FitsOne(cfg) /\ FitsTwo(cfg)) =>
        /\ Mode = "grid"
        /\ cacheAll
        /\ cacheTexture = 0

\* a map of two textures' height, configured with cacheAll false, ended setup with a
\* grid and cacheAll true
C7_Witness ==
    /\ cfg.tileCache
    /\ ~cfg.cacheAll
    /\ ready
    /\ pc = "idle"
    /\ layerHeight(cfg) > cfg.maximumBuffer
    /\ FitsTwo(cfg)
    /\ Mode = "grid"
    /\ cacheAll
    /\ Len(cacheGrid) >= 1
    /\ Len(cacheGrid[1]) >= 2

\* C8 as stated: with tile caching enabled, every map that fits neither one texture
\* nor a 2x1 / 1x2 arrangement is given the sliding-window cache (a pair of textures,
\* cacheAll false after setup), for every configured value of cacheAll.
C8_SlidingForEveryCacheAll ==
    (cfg.tileCache /\ ready /\ ~FitsOne(cfg) /\ ~FitsTwo(cfg)) =>
        /\ Mode = "sliding"
        /\ ~cacheAll
        /\ texturesCreated = 2

\* C8, amended: such a map is given the sliding-window cache (a pair of textures,
\* each the other's alternate, cacheAll false after setup) when cacheAll is configured
\* false, and the grid cache (cacheAll true) when cacheAll is configured true.
C8_SlidingUnlessCacheAll ==
    (cfg.tileCache /\ ready /\ ~FitsOne(cfg) /\ ~FitsTwo(cfg)) =>
        /\ ~cfg.cacheAll =>
              /\ Mode = "sliding"
              /\ ~cacheAll
              /\ texturesCreated = 2
              /\ cacheTexture = 1
              /\ spriteTexture = 1
              /\ spriteCacheTexture = 2
        /\ cfg.cacheAll =>
              /\ Mode = "grid"
              /\ cacheAll
              /\ cacheTexture = 0

\* a map larger than two textures, configured with cacheAll false, was given the
\* sliding-window cache and its pair of textures
C8_Witness ==
    /\ cfg.tileCache
    /\ ~cfg.cacheAll
    /\ ready
    /\ pc = "idle"
    /\ ~FitsOne(cfg)
    /\ ~FitsTwo(cfg)
    /\ Mode = "sliding"
    /\ texturesCreated = 2
    /\ spriteCacheTexture /= cacheTexture

(* ---------------------------------------------------------------------- *)
(* C9                                                                      *)
(* ---------------------------------------------------------------------- *)
\* C9: with tile caching disabled no texture is ever created or rendered into, buffer
\* and cacheAll read 0 and false, and every redraw puts on the map container the
\* tiles of every cell the current viewport overlaps.
C9_NoCacheDrawsViewport ==
    ~cfg.tileCache =>
        /\ texturesCreated = 0
        /\ cacheTexture = 0
        /\ ev.renders = 0
        /\ ev.dest = 0
        /\ buffer = 0
        /\ ~cacheAll
        /\ (ready /\ ev.populates >= 1 /\ ~laxCam.nan) =>
              /\ ViewportCells(laxCam) \subseteq ev.cells
              /\ tileCells = ev.cells

(* ---------------------------------------------------------------------- *)
(* C10 (checked under SetupSpec)                                           *)
(* ---------------------------------------------------------------------- *)
\* C10: for every configuration, handle-render-load terminates: once it has started
\* building its caches it finishes.
C10_SetupTerminates == (pc /= "idle") ~> (pc = "idle")

(* ---------------------------------------------------------------------- *)
(* C11                                                                     *)
(* ---------------------------------------------------------------------- *)
\* C11: until a handle-render-load carrying a container has been handled, a
\* handle-render populates nothing, renders nothing and raises no error, whether or
\* not a dirty trigger came before it.
C11_RenderBeforeSetupIsNoOp ==
    (ev.name = "handle-render" /\ ~ready) =>
        /\ ev.populates = 0
        /\ ev.renders = 0
        /\ ~ev.threw

(* ---------------------------------------------------------------------- *)
(* C12                                                                     *)
(* ---------------------------------------------------------------------- *)
\* C12: in single full-map mode a camera-update populates nothing, renders nothing
\* and swaps nothing, and leaves the CacheRegion, the texture and the baked tiles as
\* they were; the only events that populate are the setup itself and a handle-render
\* that found the dirty flag set.
C12_SingleNeverRedrawnByCamera ==
    [][/\ (ev'.name = "camera-update" /\ Mode = "single") =>
              /\ ev'.populates = 0
              /\ ev'.renders = 0
              /\ ev'.swaps = 0
              /\ ~ev'.stale
              /\ UNCHANGED <<cache, cachePixels, cacheTexture, spriteTexture,
                             spriteCacheTexture, texturesCreated, tileCells,
                             oldCacheSprite, updateCache, cacheAll>>
       /\ (Mode' = "single" /\ ev'.populates >= 1) =>
              \/ ev'.name = "handle-render-load"
              \/ ev'.name = "handle-render" /\ updateCache]_vars

\* the camera has moved over a single full-map cache whose pixel box was never
\* stored, and the update drew nothing
C12_Witness ==
    /\ ev.name = "camera-update"
    /\ ready
    /\ Mode = "single"
    /\ camera.left /= cfg.left
    /\ cachePixels.empty
    /\ ev.populates = 0
    /\ Cardinality(tileCells) = cfg.tilesWidth * cfg.tilesHeight

(* ---------------------------------------------------------------------- *)
(* C13 (checked under SetupSpec)                                           *)
(* ---------------------------------------------------------------------- *)
\* C13: when setup has built a grid, at least one tile fits a block each way and the
\* grid has ceil(tilesWidth / cacheTilesWidth) columns of
\* ceil(tilesHeight / cacheTilesHeight) textures each: that many textures were created.
C13_GridTextureCount ==
    (ready /\ pc = "idle" /\ Mode = "grid") =>
        /\ cacheTilesWidth >= 1
        /\ cacheTilesHeight >= 1
        /\ Len(cacheGrid) = CeilDiv(cfg.tilesWidth, cacheTilesWidth)
        /\ \A i \in 1..Len(cacheGrid) :
               Len(cacheGrid[i]) = CeilDiv(cfg.tilesHeight, cacheTilesHeight)
        /\ texturesCreated = CeilDiv(cfg.tilesWidth, cacheTilesWidth)
                               * CeilDiv(cfg.tilesHeight, cacheTilesHeight)

\* a finished grid whose last column of blocks is narrower than a block
C13_Witness ==
    /\ ready
    /\ pc = "idle"
    /\ Mode = "grid"
    /\ cacheTilesWidth >= 2
    /\ cfg.tilesWidth % cacheTilesWidth /= 0
    /\ Len(cacheGrid) = 2
    /\ Len(cacheGrid[2]) = 1
    /\ texturesCreated = 2

(* ---------------------------------------------------------------------- *)
(* C14                                                                     *)
(* ---------------------------------------------------------------------- *)
\* the pixel rectangle of the block in column i, row j of the grid (1-based)
BlockPixels(i, j) ==
    [left |-> (i - 1) * cacheTilesWidth * cfg.tileWidth + cfg.left,
     right |-> i * cacheTilesWidth * cfg.tileWidth + cfg.left,
     top |-> (j - 1) * cacheTilesHeight * cfg.tileHeight + cfg.top,
     bottom |-> j * cacheTilesHeight * cfg.tileHeight + cfg.top]

\* two rectangles share at least a point
Meets(a, b) ==
    /\ a.left <= b.right /\ b.left <= a.right
    /\ a.top <= b.bottom /\ b.top <= a.bottom

\* the sprites of the grid that are hidden
HiddenBlocks ==
    {b \in GridBlocks : ~cacheGrid[b[1] + 1][b[2] + 1].visible}

\* C14: in grid mode a camera-update leaves every block's sprite visible exactly when
\* the block's pixel rectangle meets the mapped viewport; a block that does not meet
\* it is hidden, stays in the grid with its texture, and keeps the position it had.
C14_GridVisibilityFollowsViewport ==
    [][(ev'.name = "camera-update" /\ ready /\ cacheGrid /= <<>>) =>
          /\ Len(cacheGrid') = Len(cacheGrid)
          /\ \A i \in 1..Len(cacheGrid) :
                 /\ Len(cacheGrid'[i]) = Len(cacheGrid[i])
                 /\ \A j \in 1..Len(cacheGrid[i]) :
                        /\ cacheGrid'[i][j].visible <=> Meets(BlockPixels(i, j), laxCam')
                        /\ cacheGrid'[i][j].w = cacheGrid[i][j].w
                        /\ cacheGrid'[i][j].h = cacheGrid[i][j].h
                        /\ ~cacheGrid'[i][j].visible =>
                               /\ cacheGrid'[i][j].x = cacheGrid[i][j].x
                               /\ cacheGrid'[i][j].y = cacheGrid[i][j].y]_vars

\* the viewport lies over the top left block of a grid: the blocks it does not meet
\* are hidden, and one of them keeps the position an earlier update gave it
C14_Witness ==
    /\ ev.name = "camera-update"
    /\ ready
    /\ Mode = "grid"
    /\ laxCam.left >= BlockPixels(1, 1).left
    /\ laxCam.right <= BlockPixels(1, 1).right
    /\ laxCam.top >= BlockPixels(1, 1).top
    /\ laxCam.bottom <= BlockPixels(1, 1).bottom
    /\ cacheGrid[1][1].visible
    /\ Cardinality(HiddenBlocks) >= 2
    /\ \E b \in HiddenBlocks :
           /\ ~Meets(BlockPixels(b[1] + 1, b[2] + 1), laxCam)
           /\ cacheGrid[b[1] + 1][b[2] + 1].x /= 0

(* ---------------------------------------------------------------------- *)
(* C15 (checked under MapSpec)                                             *)
(* ---------------------------------------------------------------------- *)
\* C15: for every tile map, the empty identifier 'tile-1' included, resolving the
\* identifier grid that toJSON produced from the bottom layer succeeds and gives a
\* grid whose every cell holds the template the original holds.
C15_SerializedMapRoundTrips ==
    restored.done => (~restored.threw /\ restored.map = tileMap)

(* ---------------------------------------------------------------------- *)
(* C16 (checked under OverlaySpec)                                         *)
(* ---------------------------------------------------------------------- *)
\* the last event was a cache-sprite or peer-entity-added
CacheSpriteEvent(e) == e.name \in {"cache-sprite", "peer-entity-added"}

\* the cells of the map whose tile the entity's bounds, taken relative to the map's
\* offset, reach into: column c when c * tileWidth < x + w and (c + 1) * tileWidth > x,
\* which is c in [floor(x / tileWidth), ceil((x + w) / tileWidth)), and rows alike
CellsUnder(e) ==
    {c \in (0..(cfg.tilesWidth - 1)) \X (0..(cfg.tilesHeight - 1)) :
        /\ c[1] * cfg.tileWidth < (e.x - cfg.left) + e.w
        /\ (c[1] + 1) * cfg.tileWidth > e.x - cfg.left
        /\ c[2] * cfg.tileHeight < (e.y - cfg.top) + e.h
        /\ (c[2] + 1) * cfg.tileHeight > e.y - cfg.top}

\* C16: when a layer with entityCache bakes an entity that has a cacheRender drawable,
\* the drawable is appended to the overlay list of exactly the cells in the clamped
\* floor / ceil range of its bounds, every other cell's list is left as it was, the
\* drawable joins cachedDisplayObjects, and the dirty flag is set.
C16_BakedEntityCoversItsCells ==
    [][(CacheSpriteEvent(ev') /\ cfg.entityCache /\ ev'.entity.cacheRender) =>
          /\ \A c \in DOMAIN doMap :
                 doMap'[c] = (IF c \in CellsUnder(ev'.entity)
                              THEN Append(doMap[c], ev'.entity)
                              ELSE doMap[c])
          /\ objects' = Append(objects, ev'.entity)
          /\ updateCache']_vars

\* an entity that starts left of the map and ends inside it was baked: it is listed
\* in the first column only, under an entity baked before it
C16_Witness ==
    /\ CacheSpriteEvent(ev)
    /\ ev.entity.cacheRender
    /\ ev.entity.x - cfg.left < 0
    /\ Len(objects) = 2
    /\ CellsUnder(ev.entity) /= {}
    /\ \E c \in DOMAIN doMap : Len(doMap[c]) = 2 /\ doMap[c][2] = ev.entity
    /\ \E c \in DOMAIN doMap : ev.entity \notin {doMap[c][i] : i \in 1..Len(doMap[c])}
    /\ updateCache

\* the display objects listed over at least one of the cells
ListedOver(cells) == UNION {ObjectsOf(OverlayAt(c)) : c \in cells}

\* how often x is an element of the list
TimesIn(list, x) == Cardinality({i \in 1..Len(list) : list[i] = x})

\* C17: in every redraw pass an overlay entity listed over a newly drawn cell is
\* pushed once and added to the map container once, however many cells list it and
\* however often it was registered; an entity listed over no newly drawn cell is not
\* added; and no display object carries the "drawn" marker once the pass is over
C17_EntityAddedOncePerPass ==
    /\ drawn = {}
    /\ populate = "populateTilesAndEntities" =>
          /\ \A k \in 1..Len(ev.passes) :
                 /\ \A e \in ListedOver(ev.passes[k].cells) : TimesIn(ev.passes[k].ents, e) = 1
                 /\ ObjectsOf(ev.passes[k].ents) = ListedOver(ev.passes[k].cells)
          /\ ev.passes /= <<>> =>
                 \A e \in ObjectsOf(objects) :
                     TimesIn(mapChildren, EntityChild(e))
                         = (IF e \in ListedOver(ev.passes[Len(ev.passes)].cells) THEN 1 ELSE 0)

\* the pass of a camera update that slid the window has drawn anew two cells that
\* both list an entity registered twice, and has added that entity once
C17_Witness ==
    /\ populate = "populateTilesAndEntities"
    /\ ev.passes /= <<>>
    /\ \E e \in ObjectsOf(objects) :
          /\ TimesIn(objects, e) = 2
          /\ \E c1, c2 \in ev.passes[Len(ev.passes)].cells :
                /\ c1 /= c2
                /\ TimesIn(OverlayAt(c1), e) = 2
                /\ TimesIn(OverlayAt(c2), e) = 2
          /\ TimesIn(mapChildren, EntityChild(e)) = 1
    /\ ev.name = "camera-update"
    /\ ev.swaps = 1

\* C18: after a redraw pass with overlay entities the map container holds the tile
\* container first and then the collected entities in non-decreasing z, the clip mask
\* of an entity that has one immediately after that entity and nowhere else
C18_EntitiesAfterTilesByDepth ==
    (populate = "populateTilesAndEntities" /\ ev.passes /= <<>>) =>
        /\ mapChildren[1] = TileContainer
        /\ \A i \in 2..Len(mapChildren) : mapChildren[i].kind \in {"entity", "mask"}
        /\ {mapChildren[i].of : i \in 2..Len(mapChildren)}
               = ObjectsOf(ev.passes[Len(ev.passes)].ents)
        /\ \A i, j \in 2..Len(mapChildren) :
               (i < j /\ mapChildren[i].kind = "entity" /\ mapChildren[j].kind = "entity")
                   => mapChildren[i].of.z <= mapChildren[j].of.z
        /\ \A i \in 2..Len(mapChildren) :
               /\ (mapChildren[i].kind = "entity" /\ mapChildren[i].of.mask)
                      => (i < Len(mapChildren) /\ mapChildren[i + 1] = MaskChild(mapChildren[i].of))
               /\ mapChildren[i].kind = "mask"
                      => (mapChildren[i].of.mask /\ mapChildren[i - 1] = EntityChild(mapChildren[i].of))

\* a pass pushed a deeper entity before a shallower one, and one of the two has a mask
C18_Witness ==
    /\ populate = "populateTilesAndEntities"
    /\ ev.passes /= <<>>
    /\ Len(ev.passes[Len(ev.passes)].ents) = 2
    /\ ev.passes[Len(ev.passes)].ents[1].z > ev.passes[Len(ev.passes)].ents[2].z
    /\ Len(mapChildren) = 4
    /\ mapChildren[4].kind = "mask"

\* the components that draw their entity
Renderers == {"RenderContainer", "RenderSprite"}

\* C19: once a RenderTiles with entityCache has baked an entity that offers a
\* cacheRender drawable, no component that draws the entity is left on it; with
\* entityCache off, or without cacheRender, cacheSprite lists nothing, removes no
\* component and leaves the dirty flag as it was
C19_BakedEntityStopsDrawingItself ==
    [][CacheSpriteEvent(ev') =>
          IF cfg.entityCache /\ ev'.entity.cacheRender
          THEN ev'.components \cap Renderers = {}
          ELSE /\ ev'.components = ev'.entity.components
               /\ UNCHANGED <<doMap, objects, updateCache, populate, baked>>]_vars

\* C19, the half about a cacheSprite that has nothing to bake
C19_UnbakedIsUntouched ==
    [][(CacheSpriteEvent(ev') /\ ~(cfg.entityCache /\ ev'.entity.cacheRender)) =>
          /\ ev'.components = ev'.entity.components
          /\ UNCHANGED <<doMap, objects, updateCache, populate, baked>>]_vars

\* C20: in sliding-window mode a stale camera update whose candidate window contains
\* the whole previous cache region swaps no texture, populates nothing, renders and
\* blits nothing, and leaves the cache region as it was; only the pixel box is
\* recomputed from that region
C20_ContainingWindowRedrawsNothing ==
    [][(/\ ev'.name = "camera-update"
        /\ ready
        /\ Mode = "sliding"
        /\ ev'.stale
        /\ ~cache.empty
        /\ Contains(ev'.window, cache)) =>
          /\ ev'.swaps = 0
          /\ ev'.populates = 0
          /\ ev'.renders = 0
          /\ ev'.blit = <<>>
          /\ ev'.cells = {}
          /\ cache' = cache
          /\ cachePixels' = PixelBox(cache)
          /\ UNCHANGED <<cacheTexture, spriteTexture, spriteCacheTexture, oldCacheSprite,
                         tileCells, mapChildren>>]_vars

\* a stale update in sliding mode found the cache region inside its candidate window
C20_Witness ==
    /\ ev.name = "camera-update"
    /\ ready
    /\ Mode = "sliding"
    /\ ev.stale
    /\ ~cache.empty
    /\ Contains(ev.window, cache)
    /\ ev.swaps = 0
    /\ ev.populates = 0
    /\ cachePixels = PixelBox(cache)

\* C21: in sliding-window mode, after a camera update that redrew, the cache region
\* is the window just rendered and the pixel box is the exact pixel extent of that
\* region: from region.left * tileWidth + left to (region.right + 1) * tileWidth + left,
\* and from region.top * tileHeight + top to (region.bottom + 1) * tileHeight + top
C21_RegionAndPixelBoxAfterRedraw ==
    (ev.name = "camera-update" /\ Mode = "sliding" /\ ev.swaps = 1) =>
        /\ cache = ev.window
        /\ ~cache.empty /\ ~cache.nan
        /\ ~cachePixels.nan
        /\ cachePixels.left = cache.left * cfg.tileWidth + cfg.left
        /\ cachePixels.right = (cache.right + 1) * cfg.tileWidth + cfg.left
        /\ cachePixels.top = cache.top * cfg.tileHeight + cfg.top
        /\ cachePixels.bottom = (cache.bottom + 1) * cfg.tileHeight + cfg.top

\* a redraw of a window that starts past the first column, on a map with an offset
C21_Witness ==
    /\ ev.name = "camera-update"
    /\ Mode = "sliding"
    /\ ev.swaps = 1
    /\ cfg.left /= 0
    /\ cache.left > 0
    /\ cache.right > cache.left
    /\ cache = ev.window

\* C22: in sliding-window mode a camera update that finds the cache region empty (the
\* first one after setup) redraws in full: it is stale, swaps the textures, populates
\* every cell of its clamped candidate window, draws no old cache image, and leaves
\* that window, which is not empty, as the cache region (the window holds at least
\* one cell unless a tile is larger than the cache, where updateRegion warns)
C22_FirstUpdateRedrawsInFull ==
    [][(/\ ev'.name = "camera-update"
        /\ ready
        /\ Mode = "sliding"
        /\ cache.empty) =>
          /\ ev'.stale
          /\ ev'.swaps = 1
          /\ ev'.populates = 1
          /\ ev'.renders = 1
          /\ ev'.window = Window(laxCam', cacheTilesWidth', cacheTilesHeight')
          /\ OnMap(ev'.window)
          /\ ev'.cells = RegionCells(ev'.window)
          /\ tileCells' = ev'.cells
          /\ (cacheTilesWidth' >= 1 /\ cacheTilesHeight' >= 1) => ev'.cells /= {}
          /\ ev'.blit = <<>>
          /\ ~oldCacheSprite'.attached
          /\ ~cache'.empty
          /\ cache' = ev'.window]_vars

\* the first camera update of a sliding-window layer drew a window of several cells
\* that the map's right edge had clamped
C22_Witness ==
    /\ ev.name = "camera-update"
    /\ ready
    /\ Mode = "sliding"
    /\ ev.oldCache.empty
    /\ ev.swaps = 1
    /\ ev.blit = <<>>
    /\ Cardinality(ev.cells) >= 2
    /\ ev.cells = RegionCells(cache)
    /\ cache.right = cfg.tilesWidth - 1
    /\ NaiveStart(laxCam.left, laxCam.right, cfg.left, cfg.tileWidth, cacheTilesWidth)
           + cacheTilesWidth - 1 > cfg.tilesWidth - 1

(* ---------------------------------------------------------------------- *)
(* C23: change-tile and add-tiles                                          *)
(* ---------------------------------------------------------------------- *)
\* the cells of the layers of a map, as <<layer, column, row>>, 1-based
CellsOf(maps) ==
    {c \in (DOMAIN maps) \X (1..cfg.tilesWidth) \X (1..cfg.tilesHeight) : TRUE}

\* what neither edit may touch: the map's tile dimensions, the cache region and the
\* strategy
EditKeeps ==
    /\ cfg' = cfg
    /\ cache' = cache
    /\ cachePixels' = cachePixels
    /\ cacheTilesWidth' = cacheTilesWidth
    /\ cacheTilesHeight' = cacheTilesHeight
    /\ render' = render
    /\ populate' = populate
    /\ cacheAll' = cacheAll
    /\ cacheGrid' = cacheGrid
    /\ Mode' = Mode

\* C23: change-tile(tile, x, y, z) puts the template of the identifier at cell (x, y)
\* of layer z (layer 0 when z is omitted), leaves every other cell of every layer
\* as it was and sets the dirty flag; add-tiles with a map appends one layer above
\* the layers there were, keeps those, and sets the dirty flag; neither changes the
\* map's tile dimensions, the cache region or the strategy.
C23_EditsTouchOnlyTheirTarget ==
    [][/\ ev'.name = "change-tile" =>
             LET e == ev'.edit
                 target == <<(IF e.z = <<>> THEN 0 ELSE e.z[1]) + 1, e.x + 1, e.y + 1>>
             IN  /\ DOMAIN imageMap' = DOMAIN imageMap
                 /\ target \in CellsOf(imageMap)
                 /\ \A c \in CellsOf(imageMap) :
                        imageMap'[c[1]][c[2]][c[3]] =
                            IF c = target
                            THEN (IF e.tile = "tile-1" THEN nullTemplate ELSE TemplateOf(e.tile))
                            ELSE imageMap[c[1]][c[2]][c[3]]
                 /\ updateCache'
                 /\ layers' = layers
                 /\ EditKeeps
       /\ (ev'.name = "add-tiles" /\ layers' /= layers) =>
             /\ Len(imageMap') = Len(imageMap) + 1
             /\ layers' = layers + 1
             /\ SubSeq(imageMap', 1, Len(imageMap)) = imageMap
             /\ DOMAIN imageMap'[Len(imageMap')] = 1..cfg.tilesWidth
             /\ updateCache'
             /\ EditKeeps]_vars

\* witness: on a map drawn into its cache once, the last change-tile emptied a cell
\* of the layer add-tiles had put on top, and the bottom layer has no empty cell
C23_Witness ==
    /\ ev.name = "change-tile"
    /\ ready
    /\ ~cache.empty
    /\ ev.edit.z = <<1>>
    /\ ev.edit.tile = "tile-1"
    /\ Len(imageMap) = 2
    /\ imageMap[2][ev.edit.x + 1][ev.edit.y + 1] = nullTemplate
    /\ \A c \in CellsOf(<<tileMap>>) : tileMap[c[2]][c[3]] /= nullTemplate
    /\ Mode = "sliding"

(* ---------------------------------------------------------------------- *)
(* C24: convertCamera                                                      *)
(* ---------------------------------------------------------------------- *)
\* the low edge convertCamera gives an axis: the viewport's own when the scaled world
\* is as long as the layer or as the viewport, and otherwise the edge e with
\* (e - off) * (world / scale - size) = (pos - off) * (layer - size)
MappedEdge(e, pos, size, off, world, scale, layer) ==
    IF world = layer * scale \/ world = size * scale
    THEN e = pos
    ELSE (e - off) * (world - size * scale) = (pos - off) * (layer - size) * scale

\* C24: after a camera-update on a component that is set up, each axis of laxCam is
\* mapped on its own: its low edge is (camera.left - mapLeft) * (layerSize -
\* viewportSize) / (worldSize / scale - viewportSize) + mapLeft, or the viewport's
\* own edge when worldSize / scale equals the layer's or the viewport's size, and
\* laxCam has the viewport's width and height.
C24_LaxCamIsLinearPerAxis ==
    (ev.name = "camera-update" /\ ready) =>
        /\ MappedEdge(laxCam.left, camera.left, camera.width, cfg.left, worldWidth,
                      cfg.scaleX, layerWidth(cfg))
        /\ MappedEdge(laxCam.top, camera.top, camera.height, cfg.top, worldHeight,
                      cfg.scaleY, layerHeight(cfg))
        /\ laxCam.right - laxCam.left = camera.width
        /\ laxCam.bottom - laxCam.top = camera.height

\* witness: at scale 2 the world is half as long to scroll as the layer, the
\* viewport is at the world's far end and laxCam at the layer's far end
C24_Witness ==
    /\ ev.name = "camera-update"
    /\ ready
    /\ cfg.scaleX = 2
    /\ worldWidth = (camera.width + (layerWidth(cfg) - camera.width) \div 2) * 2
    /\ camera.left = (layerWidth(cfg) - camera.width) \div 2
    /\ laxCam.left = layerWidth(cfg) - camera.width
    /\ laxCam.left /= camera.left

(* ---------------------------------------------------------------------- *)
(* C25: the empty tile                                                     *)
(* ---------------------------------------------------------------------- *)
\* the layers whose cell c holds a tile, by the identifier it was given
Filled(c) ==
    {l \in DOMAIN imageMap :
        imageMap[l][c[1] + 1][c[2] + 1] /= nullTemplate
            /\ imageMap[l][c[1] + 1][c[2] + 1].id /= "tile-1"}

\* the children of tileContainer that were added for cell c
ChildrenAt(children, c) == {k \in DOMAIN children : children[k].x = c[1] /\ children[k].y = c[2]}

\* C25: createTile('tile-1') gives the template whose getNext() returns nothing, so
\* a populate pass adds to the tile container one child for each layer that holds a
\* tile at a cell it draws, and none for a cell given 'tile-1'.
C25_EmptyCellsAddNoChild ==
    [][ev'.passes /= <<>> =>
          LET cells == ev'.passes[Len(ev'.passes)].cells
          IN  /\ createTile("tile-1") = nullTemplate
              /\ \A k \in DOMAIN tileChildren' :
                     /\ tileChildren'[k].tile.id /= "tile-1"
                     /\ <<tileChildren'[k].x, tileChildren'[k].y>> \in cells
              /\ \A c \in cells :
                     Cardinality(ChildrenAt(tileChildren', c)) = Cardinality(Filled(c))]_vars

\* witness: the last pass drew a cell that is empty in one layer and holds a tile in
\* another, and added the one child for it
C25_Witness ==
    /\ ev.passes /= <<>>
    /\ Len(imageMap) = 2
    /\ \E c \in ev.passes[Len(ev.passes)].cells :
           /\ Cardinality(Filled(c)) = 1
           /\ \E l \in DOMAIN imageMap : imageMap[l][c[1] + 1][c[2] + 1] = nullTemplate
           /\ Cardinality(ChildrenAt(tileChildren, c)) = 1

(* ---------------------------------------------------------------------- *)
(* C26: transformCheck                                                     *)
(* ---------------------------------------------------------------------- *)
\* the three flag bits of an identifier's number
FlagsOf(v) == <<HasBit(v, MirrorBit), HasBit(v, FlipBit), HasBit(v, RotateBit)>>

\* the transform of a decoding
TripleOf(d) == <<d.x, d.y, d.rotation>>

\* C26: an identifier with the X-mirror bit alone decodes to scale.x = -1, scale.y = 1
\* and rotation 0; identifiers that differ in the mirror, flip or rotate bit decode to
\* different (scale.x, scale.y, rotation) triples, so the 8 settings give 8 triples;
\* and the frame index is the identifier's low 28 bits whatever the flag bits are.
\* This holds of transformCheck and of the legacy component's.
C26_TransformDecoding ==
    /\ decoded.now /= <<>> =>
          /\ FlagsOf(tileValue) = <<TRUE, FALSE, FALSE>> => TripleOf(decoded.now) = <<-1, 1, 0>>
          /\ decoded.now.frame = (tileValue.hi % 4096) * 65536 + tileValue.lo
          /\ \A w \in TileValues :
                 /\ FlagsOf(w) /= FlagsOf(tileValue) =>
                        TripleOf(transformCheck(w)) /= TripleOf(decoded.now)
                 /\ (w.hi % 4096 = tileValue.hi % 4096 /\ w.lo = tileValue.lo) =>
                        transformCheck(w).frame = decoded.now.frame
          /\ Cardinality({TripleOf(transformCheck(w)) : w \in TileValues}) = 8
    /\ decoded.legacy /= <<>> =>
          /\ FlagsOf(tileValue) = <<TRUE, FALSE, FALSE>> => TripleOf(decoded.legacy) = <<-1, 1, 0>>
          /\ decoded.legacy.frame = (tileValue.hi % 4096) * 65536 + tileValue.lo
          /\ \A w \in TileValues :
                 /\ FlagsOf(w) /= FlagsOf(tileValue) =>
                        TripleOf(transformCheckLegacy(w)) /= TripleOf(decoded.legacy)
                 /\ (w.hi % 4096 = tileValue.hi % 4096 /\ w.lo = tileValue.lo) =>
                        transformCheckLegacy(w).frame = decoded.legacy.frame
          /\ Cardinality({TripleOf(transformCheckLegacy(w)) : w \in TileValues}) = 8

\* witness: the identifier 0x80000005 (X-mirror alone, frame 5) has been decoded by both
C26_Witness ==
    /\ tileValue = [hi |-> 32768, lo |-> 5]
    /\ decoded.now /= <<>>
    /\ decoded.legacy /= <<>>
    /\ decoded.now.frame = 5

(* ---------------------------------------------------------------------- *)
(* C27, C28: the instances of a Template                                   *)
(* ---------------------------------------------------------------------- *)
\* the tiles a pass took from the template of an identifier, in the order of its
\* getNext calls
TakenFrom(children, id) == SelectSeq(children, LAMBDA c : c.tile.id = id)

\* C27: in a populate pass, which ends with clear(), the n-th getNext() on a template
\* returns the n-th instance of its pool, made then if the pool had none, so the
\* instances of one pass are pairwise distinct; after the pass the cursor is 0 and the
\* pool holds the instances it held, in their places, and as many more as the pass
\* needed, so the next pass takes the same instances in the same order.
C27_PoolHandsOutInOrder ==
    [][(ev'.passes /= <<>> /\ tileMap /= <<>>) =>
          \A id \in DOMAIN templates :
              LET taken == TakenFrom(tileChildren', id)
                  before == templates[id].instances
                  after == templates'[id].instances
              IN  /\ templates[id].index = 0
                  /\ \A n \in DOMAIN taken :
                         /\ taken[n].tile = after[n]
                         /\ n <= Len(before) => taken[n].tile = before[n]
                  /\ \A m, n \in DOMAIN taken : m /= n => taken[m].tile /= taken[n].tile
                  /\ templates'[id].index = 0
                  /\ Len(after) >= Len(before)
                  /\ SubSeq(after, 1, Len(before)) = before
                  /\ Len(ev'.passes) = 1 => Len(after) = Max(Len(before), Len(taken))]_vars

\* witness: the last pass took two tiles from a template whose pool holds more, made
\* in an earlier pass
C27_Witness ==
    /\ ev.passes /= <<>>
    /\ tileMap /= <<>>
    /\ \E id \in DOMAIN templates :
           /\ Len(TakenFrom(tileChildren, id)) >= 2
           /\ Len(templates[id].instances) > Len(TakenFrom(tileChildren, id))
           /\ templates[id].index = 0

\* C28 as stated: every tile a template has handed out, the canonical one and the
\* clones alike, refers back to its template.
C28_EveryInstanceRefersBack ==
    \A k \in DOMAIN tileChildren : tileChildren[k].tile.template

\* C28: of the instances of a template the first, which the Template was made from,
\* refers back to it and the clones getNext makes do not; the tiles a pass takes
\* from a template begin with the first instance, so the pass has the template to
\* clear, and the cursor is 0 after it.
C28_CanonicalRefersBack ==
    \A id \in DOMAIN templates :
        /\ \A n \in DOMAIN templates[id].instances :
               /\ templates[id].instances[n].template <=> n = 1
               /\ templates[id].instances[n].id = id
        /\ TakenFrom(tileChildren, id) /= <<>> =>
               /\ TakenFrom(tileChildren, id)[1].tile = templates[id].instances[1]
               /\ TakenFrom(tileChildren, id)[1].tile.template
        /\ \A k \in DOMAIN tileChildren :
               tileChildren[k].tile.id = id =>
                   (tileChildren[k].tile.template <=> tileChildren[k].tile.n = 1)
        /\ templates[id].index = 0

\* witness: a pass took the first instance of a template and a clone of it
C28_Witness ==
    \E j, k \in DOMAIN tileChildren :
        /\ tileChildren[j].tile.id = tileChildren[k].tile.id
        /\ tileChildren[j].tile.template
        /\ ~tileChildren[k].tile.template
        /\ tileChildren[k].tile.n = 2

(* ---------------------------------------------------------------------- *)
(* C29: the sizes of the cache textures                                    *)
(* ---------------------------------------------------------------------- *)
\* the <<width, height>> of the textures made by RenderTexture.create so far: the
\* texture of the single cache, the pair of the sliding one, the grid's blocks
TextureSizes ==
    (IF cacheTexture /= 0 THEN {<<cacheWidth, cacheHeight>>} ELSE {}) \cup
    {<<cacheGrid[i][j].w, cacheGrid[i][j].h>> :
        <<i, j>> \in {b \in (DOMAIN cacheGrid) \X (1..GridCap) : b[2] \in DOMAIN cacheGrid[b[1]]}}

IsPowerOfTwo(n) == \E k \in 0..12 : n = 2 ^ k

\* C29: every cache texture made at setup has a width and a height that are each a
\* power of two and at most maximumBuffer.
C29_TexturesArePowersOfTwo ==
    \A size \in TextureSizes :
        /\ IsPowerOfTwo(size[1]) /\ size[1] <= cfg.maximumBuffer
        /\ IsPowerOfTwo(size[2]) /\ size[2] <= cfg.maximumBuffer

\* what the code keeps: every side is at most maximumBuffer, and is a power of two
\* unless it is maximumBuffer itself
C29_TexturesWithinMaximum ==
    \A size \in TextureSizes :
        /\ size[1] <= cfg.maximumBuffer
        /\ size[2] <= cfg.maximumBuffer
        /\ IsPowerOfTwo(size[1]) \/ size[1] = cfg.maximumBuffer
        /\ IsPowerOfTwo(size[2]) \/ size[2] = cfg.maximumBuffer
        /\ IsPowerOfTwo(cfg.maximumBuffer) => IsPowerOfTwo(size[1]) /\ IsPowerOfTwo(size[2])

(* ---------------------------------------------------------------------- *)
(* C30: the legacy component's cache range                                 *)
(* ---------------------------------------------------------------------- *)
\* C30: after every redraw of the legacy component's camera-update, the first one
\* included, the recorded cache range (minX, minY, maxX, maxY) is the tile window just
\* rendered.
C30_RangeRecordedAtEveryRedraw ==
    (legacy /= NoLegacy /\ legacy.last.redrew) => legacy.cache = legacy.last.window

\* what the code keeps: a redraw that found an earlier cached image records its
\* window; the first redraw, which finds none, leaves the range at (-1, -1, -1, -1)
C30_RangeRecordedWhenBlitted ==
    (legacy /= NoLegacy /\ legacy.last.redrew) =>
        IF legacy.last.blit /= <<>>
        THEN legacy.cache = legacy.last.window
        ELSE legacy.cache = Range(-1, -1, -1, -1)

(* ---------------------------------------------------------------------- *)
(* C31: the cache after an edit                                            *)
(* ---------------------------------------------------------------------- *)
\* the identifiers of the tiles the map holds at cell (x, y), the bottom layer first
TilesAt(x, y) ==
    LET cellOf(l) == imageMap[l][x + 1][y + 1]
        filled == SelectSeq([l \in 1..Len(imageMap) |-> l], LAMBDA l : cellOf(l).kind = "template")
    IN  [k \in 1..Len(filled) |-> cellOf(filled[k]).id]

\* what the active texture shows on top at the map's cell (x, y): the last tile drawn
\* there, or nothing
TopShown(x, y) == At(shown[cacheTexture], <<x - cache.left, y - cache.top>>)

\* the tile on top at the map's cell (x, y), or nothing
TopTile(x, y) ==
    IF TilesAt(x, y) = <<>> THEN <<>> ELSE <<TilesAt(x, y)[Len(TilesAt(x, y))]>>

\* a handle-render that redrew the sliding cache over a region of the map
RedrawnInPlace ==
    /\ shown /= NotShown
    /\ Mode = "sliding"
    /\ ev.name = "handle-render"
    /\ ev.renders > 0
    /\ ~cache.empty

\* C31: in sliding-window mode, after a change-tile on a cell inside the cache region
\* followed by handle-render, the active cache texture shows the map's tile at every
\* cell of the region, whatever camera-triggered redraws came before (also when an
\* earlier blit left the back-buffer sprite a child of the map container).
C31_CacheShowsTheMapAfterRender ==
    RedrawnInPlace =>
        \A c \in (cache.left..cache.right) \X (cache.top..cache.bottom) :
            TopShown(c[1], c[2]) = TopTile(c[1], c[2])

\* what the code keeps: the redraw shows the map wherever the blit sprite is not a
\* child of the map container
C31_CacheShowsTheMapWithoutBlit ==
    (RedrawnInPlace /\ ev.blit = <<>>) =>
        \A c \in (cache.left..cache.right) \X (cache.top..cache.bottom) :
            TopShown(c[1], c[2]) = TopTile(c[1], c[2])

(* ---------------------------------------------------------------------- *)
(* C32: the pair of textures of the sliding cache                          *)
(* ---------------------------------------------------------------------- *)
\* C32: in sliding-window mode, in every state after setup, the alternate of the
\* alternate of cacheTexture is cacheTexture, the sprite on stage (tilesSprite) shows
\* cacheTexture, the blit sprite (tilesSpriteCache) shows the other texture of the
\* pair, which is cacheTexture's alternate, and exactly two textures were created,
\* however many swaps there were.
C32_PairedTextures ==
    (ready /\ Mode = "sliding") =>
        /\ cacheTexture \in {1, 2}
        /\ alternate(alternate(cacheTexture)) = cacheTexture
        /\ spriteTexture = cacheTexture
        /\ spriteCacheTexture \in {1, 2} \ {cacheTexture}
        /\ spriteCacheTexture = alternate(cacheTexture)
        /\ texturesCreated = 2

\* reached: a swap that brought the first texture back on stage, so the second swap
\* at least
C32_Witness ==
    /\ ready
    /\ Mode = "sliding"
    /\ ev.name = "camera-update"
    /\ ev.swaps = 1
    /\ cacheTexture = 1
    /\ spriteCacheTexture = 2

(* ---------------------------------------------------------------------- *)
(* C33: which texture a redraw renders into                                *)
(* ---------------------------------------------------------------------- *)
\* C33: in sliding-window mode, every redraw made by a camera update swaps the pair
\* exactly once, renders into the texture that was the alternate before the update and
\* blits from the one that was active, so the texture rendered into is never the one
\* blitted from; a redraw made by handle-render swaps nothing, renders into the active
\* texture and leaves the cache region as it was.
C33_SwapDiscipline ==
    [][(ready /\ Mode = "sliding" /\ ev'.renders > 0) =>
          /\ ev'.name = "camera-update" =>
                /\ ev'.swaps = 1
                /\ ev'.dest = alternate(cacheTexture)
                /\ cacheTexture' = ev'.dest
                /\ spriteTexture' = ev'.dest
                /\ spriteCacheTexture' = cacheTexture
                /\ ev'.dest /= spriteCacheTexture'
          /\ ev'.name = "handle-render" =>
                /\ ev'.swaps = 0
                /\ ev'.dest = cacheTexture
                /\ cacheTexture' = cacheTexture
                /\ spriteTexture' = spriteTexture
                /\ spriteCacheTexture' = spriteCacheTexture
                /\ cache' = cache]_vars

\* reached: a redraw by handle-render of a region that a camera update had drawn with
\* a blit of the old texture
C33_Witness ==
    /\ ready
    /\ Mode = "sliding"
    /\ ev.name = "handle-render"
    /\ ev.renders > 0
    /\ ev.dest = cacheTexture
    /\ ~cache.empty
    /\ oldCacheSprite.attached

(* ---------------------------------------------------------------------- *)
(* C34: the same viewport twice                                            *)
(* ---------------------------------------------------------------------- *)
\* C34: in every strategy, a camera-update that delivers the viewport the camera-update
\* before it delivered draws nothing, swaps nothing and changes nothing: the cache
\* region, its pixel box, the window's size, the blocks shown and the sprites' places
\* stay as they were.
C34_SameViewportChangesNothing ==
    [][(ready /\ ev.name = "camera-update" /\ ev'.name = "camera-update" /\ camera' = camera) =>
          /\ ev'.populates = 0
          /\ ev'.renders = 0
          /\ ev'.swaps = 0
          /\ cache' = cache
          /\ cachePixels' = cachePixels
          /\ laxCam' = laxCam
          /\ cacheTilesWidth' = cacheTilesWidth
          /\ cacheTilesHeight' = cacheTilesHeight
          /\ cacheGrid' = cacheGrid
          /\ sprite' = sprite
          /\ cacheTexture' = cacheTexture
          /\ spriteTexture' = spriteTexture
          /\ spriteCacheTexture' = spriteCacheTexture
          /\ tileCells' = tileCells
          /\ oldCacheSprite' = oldCacheSprite]_vars

\* reached: the second delivery of a viewport that lies outside the pixel box, where
\* the first had redrawn the sliding cache
C34_Witness ==
    /\ ready
    /\ ev.name = "camera-update"
    /\ ev.again
    /\ ev.stale
    /\ Mode = "sliding"
    /\ ~cache.empty

(* ---------------------------------------------------------------------- *)
(* C35: the region after a stale update                                    *)
(* ---------------------------------------------------------------------- *)
\* a camera update of the sliding cache with a buffer margin that found the viewport
\* outside the pixel box
StaleSlidingUpdate ==
    /\ ready
    /\ Mode = "sliding"
    /\ buffer /= 0
    /\ ev.name = "camera-update"
    /\ ev.stale

\* C35: in sliding-window mode with a non-zero buffer, after every stale camera update
\* (also one where the viewport's size changed and updateBufferRegion re-sized the
\* window) the recorded cache region is the candidate window computed in that update,
\* so the region has the current window's size.
C35_RegionIsTheCandidateWindow ==
    StaleSlidingUpdate =>
        /\ cache = ev.window
        /\ cache.right - cache.left + 1 = cacheTilesWidth
        /\ cache.bottom - cache.top + 1 = cacheTilesHeight

\* what the code keeps: the region is the candidate window after every stale update
\* that redrew, and lies inside it after one that did not
C35_RegionInsideTheCandidateWindow ==
    StaleSlidingUpdate =>
        /\ ev.swaps = 1 => cache = ev.window
        /\ ev.swaps = 0 => (cache = ev.oldCache /\ Contains(ev.window, cache))

(* ---------------------------------------------------------------------- *)
(* C36: the cursors between passes                                         *)
(* ---------------------------------------------------------------------- *)
\* C36: after every populate pass the cursor of every template of the tile table is
\* 0, however many cells and layers took tiles from it in the pass, so every pass
\* starts handing out instances from the canonical one.
C36_CursorsAreZeroBetweenPasses ==
    tileMap /= <<>> =>
        /\ \A id \in DOMAIN templates : templates[id].index = 0
        /\ \A id \in DOMAIN templates :
               TakenFrom(tileChildren, id) /= <<>> =>
                   TakenFrom(tileChildren, id)[1].tile = templates[id].instances[1]

\* reached: a pass that took tiles of one template for several cells, and for two
\* layers of one cell
C36_Witness ==
    /\ tileMap /= <<>>
    /\ ev.passes /= <<>>
    /\ Len(imageMap) >= 2
    /\ \E id \in DOMAIN templates :
           /\ Len(TakenFrom(tileChildren, id)) >= 3
           /\ \E j, k \in DOMAIN tileChildren :
                  /\ j < k
                  /\ tileChildren[j].tile.id = id
                  /\ tileChildren[k].tile.id = id
                  /\ tileChildren[j].x = tileChildren[k].x
                  /\ tileChildren[j].y = tileChildren[k].y
           /\ \E j, k \in DOMAIN tileChildren :
                  /\ tileChildren[j].tile.id = id
                  /\ tileChildren[k].tile.id = id
                  /\ tileChildren[j].x /= tileChildren[k].x

(* ---------------------------------------------------------------------- *)
(* C37: the regions updateGrid renders                                     *)
(* ---------------------------------------------------------------------- *)
\* a handle-render that found the grid dirty and ran updateGrid
GridRedraw ==
    /\ ready
    /\ Mode = "grid"
    /\ cacheGrid /= <<>>
    /\ ev.name = "handle-render"
    /\ ev.populates > 0

\* the tiles of the map
MapCells == (0..(cfg.tilesWidth - 1)) \X (0..(cfg.tilesHeight - 1))

\* C37: in grid mode, the tile region updateGrid renders for each block lies within
\* the map, every tile of the map is in the region of the block whose index is
\* (floor(column / cacheTilesWidth), floor(row / cacheTilesHeight)), and a dirty
\* handle-render renders every block exactly once (the first is forced by setup).
C37_GridRegions ==
    GridRedraw =>
        /\ Len(ev.passes) = Cardinality(GridBlocks)
        /\ Len(GridOrder) = Cardinality(GridBlocks)
        /\ ev.populates = Cardinality(GridBlocks)
        /\ \A j, k \in DOMAIN GridOrder : j /= k => GridOrder[j] /= GridOrder[k]
        /\ \A k \in DOMAIN ev.passes :
               /\ ev.passes[k].cells /= {}
               /\ ev.passes[k].cells \subseteq MapCells
               /\ ev.passes[k].cells = RegionCells(BlockRegion(GridOrder[k][1], GridOrder[k][2]))
        /\ \A c \in MapCells :
               \E k \in DOMAIN GridOrder :
                   /\ GridOrder[k] = <<c[1] \div cacheTilesWidth, c[2] \div cacheTilesHeight>>
                   /\ c \in ev.passes[k].cells

\* reached: the redraw setup forces, of a grid with blocks several tiles wide whose
\* last column of blocks is narrower
C37_Witness ==
    /\ GridRedraw
    /\ ev.coalesced = 0
    /\ cacheTilesWidth >= 2
    /\ Len(cacheGrid) >= 2
    /\ cfg.tilesWidth % cacheTilesWidth /= 0

(* ---------------------------------------------------------------------- *)
(* C38: the rendered region and the size of its texture                    *)
(* ---------------------------------------------------------------------- *)
\* the tiles of the region rendered into the texture of the single or sliding cache,
\* along each axis: the whole map, or the window
RegionWidth == IF Mode = "single" THEN cfg.tilesWidth ELSE cacheTilesWidth
RegionHeight == IF Mode = "single" THEN cfg.tilesHeight ELSE cacheTilesHeight

\* the tiles of the block in column i and row j of the grid (from 1), along each axis
BlockWidth(i) == Min(cacheTilesWidth, cfg.tilesWidth - (i - 1) * cacheTilesWidth)
BlockHeight(j) == Min(cacheTilesHeight, cfg.tilesHeight - (j - 1) * cacheTilesHeight)

\* the region rendered into every texture made so far is no larger than the texture:
\* tiles at their unscaled size, and the bleed around them in grid mode
RegionsFitTextures ==
    /\ (Mode \in {"single", "sliding"} /\ cacheTexture /= 0) =>
          /\ RegionWidth * cfg.tileWidth <= cacheWidth
          /\ RegionHeight * cfg.tileHeight <= cacheHeight
    /\ Mode = "grid" =>
          \A i \in DOMAIN cacheGrid : \A j \in DOMAIN cacheGrid[i] :
              /\ BlockWidth(i) * cfg.tileWidth + EDGES_BLEED <= cacheGrid[i][j].w
              /\ BlockHeight(j) * cfg.tileHeight + EDGES_BLEED <= cacheGrid[i][j].h

\* C38: in every caching strategy and at every positive render scale, those below 1
\* included, the pixel extent of the tile region rendered into a texture (its tiles at
\* the unscaled tile size, and the 2-pixel bleed in grid mode) is at most the
\* texture's width and height.
C38_RegionsFitTexturesAtEveryScale ==
    ready => RegionsFitTextures

\* what the code keeps: the regions fit at scales of 1 and above
C38_RegionsFitTexturesFromScaleOne ==
    (ready /\ cfg.scaleX >= cfg.scaleDen /\ cfg.scaleY >= cfg.scaleDen) => RegionsFitTextures

(* ---------------------------------------------------------------------- *)
(* C39: destroy                                                            *)
(* ---------------------------------------------------------------------- *)
\* how many times texture.destroy(true) was called on a texture
TimesReleased(t) == Cardinality({i \in DOMAIN stage.released : stage.released[i] = t})

\* destroy has run on a component that was set up
Destroyed == pc = "destroyed" /\ ready

\* C39: after destroy on a component that was set up, every texture the component made
\* (both textures of the sliding pair, whichever of them the sprite shows after the
\* swaps; the single full-map texture; every texture of the grid's blocks) has been
\* released exactly once, nothing else has been released, and none of the
\* component's nodes is left on the parent container; before destroy nothing is
\* released.
C39_DestroyReleasesEveryTextureOnce ==
    /\ Destroyed =>
          /\ \A t \in stage.textures : TimesReleased(t) = 1
          /\ Members(stage.released) \subseteq stage.textures
          /\ stage.nodes = {}
    /\ ~Destroyed => stage.released = <<>>

\* reached: destroy of a sliding cache whose sprite shows the first texture again
\* after at least two swaps, the alternate released first
C39_Witness ==
    /\ Destroyed
    /\ ev.name = "destroy"
    /\ ~cache.empty
    /\ cacheTexture = 1
    /\ spriteCacheTexture = 2
    /\ stage.textures = {PairTexture(1), PairTexture(2)}
    /\ stage.released = <<PairTexture(2), PairTexture(1)>>
    /\ stage.nodes = {}

====
